---------------------------- MODULE Spec2Model ----------------------------
(*
  A state-machine model of src/src/services/withdrawalService.ts: the
  privacy-pool withdrawal pipeline (processWithdrawal and its four steps),
  the caller-side operations (validateWithdrawalRequest, executeWithdrawal,
  executePreparedWithdrawal, a call of calculateWithdrawalContext on its
  own) and the pure helpers.

  One action is one run-to-completion segment of the JavaScript code: what
  one job of the event loop executes.  A collaborator's promise settling is
  one action (the collaborator's doing); the continuation of the async
  function that awaited it is another, from the await to that function's
  next await, return or throw; and when an async function returns or
  throws, the function that awaits its promise goes on in yet another.
  Between any two of these, the segments of other runs may execute.

  Text that the code inspects character by character (decimal amounts,
  commitments, mnemonic phrases) is a sequence of characters; text that the
  code only passes on or tests for emptiness (addresses, keys) is a TLA+
  string.  A character is a one-character string; a character that a TLA+
  string cannot spell is named by its code point ("U+00A0").
*)
EXTENDS Integers, Sequences, FiniteSets, TLC

(***************************************************************************)
(* Bounds of the model                                                     *)
(***************************************************************************)
\* Number of processWithdrawal invocations the caller makes (they may overlap).
NumRuns == 2
\* Largest index the tracker may already hold for the keys before the first run.
MaxPrior == 1

Runs == 1 .. NumRuns

(***************************************************************************)
(* Program constants (src/config/constants, imported at line 12)           *)
(***************************************************************************)
DEFAULT_RELAY_FEE_BPS == 1000
BPS_DENOMINATOR == 10000
PAYMASTER == "0xPaymaster"
ETH_PRIVACY_POOL == "0xPool"

(***************************************************************************)
(* Text helpers                                                            *)
(***************************************************************************)
Digits == {"0", "1", "2", "3", "4", "5", "6", "7", "8", "9"}

\* StrWhiteSpaceChar of ECMAScript: WhiteSpace (tab, vertical tab, form
\* feed, the space separators, the byte order mark) and LineTerminator.
WhiteSpace ==
  {" ", "\t", "\n", "\r", "\f", "U+000B", "U+00A0", "U+1680", "U+2000",
   "U+2001", "U+2002", "U+2003", "U+2004", "U+2005", "U+2006", "U+2007",
   "U+2008", "U+2009", "U+200A", "U+2028", "U+2029", "U+202F", "U+205F",
   "U+3000", "U+FEFF"}

DigitVal(c) ==
  CASE c = "0" -> 0 [] c = "1" -> 1 [] c = "2" -> 2 [] c = "3" -> 3
    [] c = "4" -> 4 [] c = "5" -> 5 [] c = "6" -> 6 [] c = "7" -> 7
    [] c = "8" -> 8 [] c = "9" -> 9

Drop(s, n) == SubSeq(s, n + 1, Len(s))

\* The largest and the smallest number of a non-empty set of numbers.
Max(S) == CHOOSE x \in S : \A y \in S : y <= x
Min(S) == CHOOSE x \in S : \A y \in S : x <= y

\* s without the white space at its start.
SkipWs(s) ==
  IF \A i \in 1 .. Len(s) : s[i] \in WhiteSpace THEN <<>>
  ELSE SubSeq(s,
              CHOOSE i \in 1 .. Len(s) :
                s[i] \notin WhiteSpace /\ \A j \in 1 .. (i - 1) : s[j] \in WhiteSpace,
              Len(s))

\* s without the white space at its end.
TrimEnd(s) ==
  IF \A i \in 1 .. Len(s) : s[i] \in WhiteSpace THEN <<>>
  ELSE SubSeq(s, 1,
              CHOOSE i \in 1 .. Len(s) :
                s[i] \notin WhiteSpace
                  /\ \A j \in (i + 1) .. Len(s) : s[j] \in WhiteSpace)

\* Number of leading decimal digits of s.
LeadDigits(s) ==
  IF \A i \in 1 .. Len(s) : s[i] \in Digits THEN Len(s)
  ELSE (CHOOSE i \in 1 .. Len(s) :
          s[i] \notin Digits /\ \A j \in 1 .. (i - 1) : s[j] \in Digits) - 1

\* Value of the characters lo .. hi of s, a few digits.
RECURSIVE SmallValue(_, _, _)
SmallValue(s, lo, hi) ==
  IF lo > hi THEN 0 ELSE SmallValue(s, lo, hi - 1) * 10 + DigitVal(s[hi])

\* Value of the first n characters of s, all of them digits, or cap when
\* the value is above cap, for a cap below 10^9 (a value of ten digits or
\* more is above it).
DigitsValue(s, n, cap) ==
  LET nonzero == {i \in 1 .. n : s[i] # "0"}
  IN  IF nonzero = {} THEN 0
      ELSE IF n - Min(nonzero) + 1 > 9 THEN cap
      ELSE IF SmallValue(s, Min(nonzero), n) > cap THEN cap
      ELSE SmallValue(s, Min(nonzero), n)

RECURSIVE Pow10(_)
Pow10(n) == IF n <= 0 THEN 1 ELSE 10 * Pow10(n - 1)

InfinityText == <<"I", "n", "f", "i", "n", "i", "t", "y">>

(***************************************************************************)
(* Natural numbers of any size, for the digits of an amount and the 53-bit *)
(* significands of the doubles that JavaScript's arithmetic works on: a    *)
(* number is the sequence of its digits in base Limb, lowest first,        *)
(* without leading zero digits (zero is the empty sequence).               *)
(***************************************************************************)
Limb == 32768

\* a without zero digits at its high end.
BNorm(a) ==
  LET nonzero == {i \in 1 .. Len(a) : a[i] # 0}
  IN  IF nonzero = {} THEN <<>> ELSE SubSeq(a, 1, Max(nonzero))

RECURSIVE BFromInt(_)
BFromInt(n) == IF n = 0 THEN <<>> ELSE <<n % Limb>> \o BFromInt(n \div Limb)

\* The digits lo .. hi of a * k + c and the carry out of them, c being the
\* carry into them.  (The operations that carry from digit to digit work on
\* one half of the digits and then on the other.)
RECURSIVE BMulAddSeg(_, _, _, _, _)
BMulAddSeg(a, k, c, lo, hi) ==
  IF lo > hi THEN [s |-> <<>>, c |-> c]
  ELSE IF lo = hi
  THEN LET v == a[lo] * k + c
       IN  [s |-> <<v % Limb>>, c |-> v \div Limb]
  ELSE LET mid == (lo + hi) \div 2
           low == BMulAddSeg(a, k, c, lo, mid)
           high == BMulAddSeg(a, k, low.c, mid + 1, hi)
       IN  [s |-> low.s \o high.s, c |-> high.c]

\* a * k, for 0 <= k < Limb.
BMulSmall(a, k) ==
  LET r == BMulAddSeg(a, k, 0, 1, Len(a))
  IN  BNorm(r.s \o BFromInt(r.c))

\* s from its last element to its first.
Reverse(s) == [i \in 1 .. Len(s) |-> s[Len(s) + 1 - i]]

\* Long division of the digits hi down to lo of a by d, r being the
\* remainder above them: the digits of the quotient, highest first, and the
\* remainder below them.
RECURSIVE BDivRemSeg(_, _, _, _, _)
BDivRemSeg(a, d, r, lo, hi) ==
  IF lo > hi THEN [q |-> <<>>, r |-> r]
  ELSE IF lo = hi
  THEN LET cur == r * Limb + a[lo]
       IN  [q |-> <<cur \div d>>, r |-> cur % d]
  ELSE LET mid == (lo + hi) \div 2
           high == BDivRemSeg(a, d, r, mid + 1, hi)
           low == BDivRemSeg(a, d, high.r, lo, mid)
       IN  [q |-> high.q \o low.q, r |-> low.r]

\* Quotient and remainder of a by d, for 0 < d < Limb.
BDivRem(a, d) ==
  LET x == BDivRemSeg(a, d, 0, 1, Len(a))
  IN  [q |-> Reverse(x.q), r |-> x.r]

DigitAt(a, i) == IF i <= Len(a) THEN a[i] ELSE 0

\* The digits lo .. hi of a + b + c and the carry out of them.
RECURSIVE BAddSeg(_, _, _, _, _)
BAddSeg(a, b, c, lo, hi) ==
  IF lo > hi THEN [s |-> <<>>, c |-> c]
  ELSE IF lo = hi
  THEN LET v == DigitAt(a, lo) + DigitAt(b, lo) + c
       IN  [s |-> <<v % Limb>>, c |-> v \div Limb]
  ELSE LET mid == (lo + hi) \div 2
           low == BAddSeg(a, b, c, lo, mid)
           high == BAddSeg(a, b, low.c, mid + 1, hi)
       IN  [s |-> low.s \o high.s, c |-> high.c]

BAdd(a, b) ==
  LET r == BAddSeg(a, b, 0, 1, IF Len(a) > Len(b) THEN Len(a) ELSE Len(b))
  IN  r.s \o BFromInt(r.c)

\* a < b: by the number of digits, then by the highest digit they differ in.
BLess(a, b) ==
  IF Len(a) # Len(b) THEN Len(a) < Len(b)
  ELSE LET differ == {i \in 1 .. Len(a) : a[i] # b[i]}
       IN  differ # {} /\ a[Max(differ)] < b[Max(differ)]

\* The digits lo .. hi of a - b - c and the borrow out of them, for c in
\* {0, 1}.
RECURSIVE BSubSeg(_, _, _, _, _)
BSubSeg(a, b, c, lo, hi) ==
  IF lo > hi THEN [s |-> <<>>, c |-> c]
  ELSE IF lo = hi
  THEN LET v == a[lo] - DigitAt(b, lo) - c
       IN  [s |-> <<IF v < 0 THEN v + Limb ELSE v>>, c |-> IF v < 0 THEN 1 ELSE 0]
  ELSE LET mid == (lo + hi) \div 2
           low == BSubSeg(a, b, c, lo, mid)
           high == BSubSeg(a, b, low.c, mid + 1, hi)
       IN  [s |-> low.s \o high.s, c |-> high.c]

\* a - b, for a >= b.
BSub(a, b) == BNorm(BSubSeg(a, b, 0, 1, Len(a)).s)

RECURSIVE Pow2(_)
Pow2(n) == IF n <= 0 THEN 1 ELSE 2 * Pow2(n - 1)

\* Number of binary digits of n.
RECURSIVE BitLenSmall(_)
BitLenSmall(n) == IF n = 0 THEN 0 ELSE 1 + BitLenSmall(n \div 2)

BitLen(a) ==
  IF a = <<>> THEN 0 ELSE 15 * (Len(a) - 1) + BitLenSmall(a[Len(a)])

BIsOdd(a) == a # <<>> /\ a[1] % 2 = 1

\* a * 2^n.
BShl(a, n) ==
  IF a = <<>> THEN a
  ELSE [i \in 1 .. (n \div 15) |-> 0] \o BMulSmall(a, Pow2(n % 15))

\* a divided by 2^n: the quotient, and whether a remainder was dropped.
BShr(a, n) ==
  LET k == n \div 15
      low == SubSeq(a, 1, IF k < Len(a) THEN k ELSE Len(a))
      d == BDivRem(SubSeq(a, k + 1, Len(a)), Pow2(n % 15))
  IN  [q |-> BNorm(d.q),
       sticky |-> d.r # 0 \/ \E i \in 1 .. Len(low) : low[i] # 0]

\* a * 10^n, four decimal digits at a time (one half of them, then the
\* other).
RECURSIVE BMulPow10(_, _)
BMulPow10(a, n) ==
  IF n = 0 \/ a = <<>> THEN a
  ELSE IF n <= 4 THEN BMulSmall(a, Pow10(n))
  ELSE LET h == 4 * ((n + 7) \div 8)
           half == BMulPow10(a, h)
       IN  IF half = <<>> THEN half ELSE BMulPow10(half, n - h)

\* Value of the characters lo .. hi of s, all of them digits.
RECURSIVE BDigitsSeg(_, _, _)
BDigitsSeg(s, lo, hi) ==
  IF hi - lo < 4 THEN BFromInt(SmallValue(s, lo, hi))
  ELSE LET mid == (lo + hi) \div 2
       IN  BAdd(BMulPow10(BDigitsSeg(s, lo, mid), hi - mid),
                BDigitsSeg(s, mid + 1, hi))

\* The number written by the first n characters of s, all of them digits:
\* the value of the digits from the first that is not "0".
BDigitsValue(s, n) ==
  IF \A i \in 1 .. n : s[i] = "0" THEN <<>>
  ELSE BNorm(BDigitsSeg(s,
                        CHOOSE i \in 1 .. n :
                          s[i] # "0" /\ \A j \in 1 .. (i - 1) : s[j] = "0",
                        n))

\* Divisors below Limb whose product is 10^n.
Pow10Divisors(n) ==
  [i \in 1 .. (n \div 4) |-> 10000]
    \o (IF n % 4 = 0 THEN <<>> ELSE <<Pow10(n % 4)>>)

\* a divided by each of the divisors ds[lo] .. ds[hi] in turn: the
\* quotient, and whether a remainder was dropped.
RECURSIVE BDivAllSeg(_, _, _, _)
BDivAllSeg(a, ds, lo, hi) ==
  IF lo > hi THEN [q |-> a, sticky |-> FALSE]
  ELSE IF lo = hi
  THEN LET d == BDivRem(a, ds[lo])
       IN  [q |-> BNorm(d.q), sticky |-> d.r # 0]
  ELSE LET mid == (lo + hi) \div 2
           first == BDivAllSeg(a, ds, lo, mid)
           rest == BDivAllSeg(first.q, ds, mid + 1, hi)
       IN  IF first.q = <<>> THEN first
           ELSE [q |-> rest.q, sticky |-> first.sticky \/ rest.sticky]

\* a divided by each of the divisors ds in turn (each below Limb).
BDivAll(a, ds) ==
  LET r == BDivAllSeg(a, ds, 1, Len(ds))
  IN  [q |-> BNorm(r.q), sticky |-> r.sticky]

\* The binary digits of the divisors ds[lo] .. ds[hi], added up.
RECURSIVE SumBitLensSeg(_, _, _)
SumBitLensSeg(ds, lo, hi) ==
  IF lo > hi THEN 0
  ELSE IF lo = hi THEN BitLenSmall(ds[lo])
  ELSE LET mid == (lo + hi) \div 2
       IN  SumBitLensSeg(ds, lo, mid) + SumBitLensSeg(ds, mid + 1, hi)

SumBitLens(ds) == SumBitLensSeg(ds, 1, Len(ds))

(***************************************************************************)
(* JavaScript Numbers (IEEE 754 binary64): NaN, +/-Infinity, or            *)
(* (-1)^neg * sig * 2^bexp where sig is 0 (and bexp is 0), or has exactly  *)
(* 53 binary digits (a normal number, MinBExp <= bexp <= MaxBExp), or has  *)
(* fewer of them and bexp = MinBExp (a subnormal number).  Every operation *)
(* rounds its exact result to the nearest such number, ties to the even    *)
(* significand.                                                            *)
(***************************************************************************)
DNaN == [nan |-> TRUE, inf |-> FALSE, neg |-> FALSE, sig |-> <<>>, bexp |-> 0]
DInf(neg) == [nan |-> FALSE, inf |-> TRUE, neg |-> neg, sig |-> <<>>, bexp |-> 0]
DZero(neg) == [nan |-> FALSE, inf |-> FALSE, neg |-> neg, sig |-> <<>>, bexp |-> 0]
DFinite(neg, sig, bexp) ==
  [nan |-> FALSE, inf |-> FALSE, neg |-> neg, sig |-> sig, bexp |-> bexp]

\* Largest bexp of a finite double: (2^53 - 1) * 2^971 is the largest one.
MaxBExp == 971
\* Smallest bexp: 2^-1074 is the smallest double above 0.
MinBExp == -1074

\* Round to nearest, ties to even: half are the digits kept at 2^bexp, odd
\* tells that the first digit dropped was 1, sticky that a later one was.
\* Rounding up may carry into a 54th binary digit; a result beyond the
\* largest double is Infinity.
RoundNearest(neg, half, odd, sticky, bexp) ==
  LET m == IF odd /\ (sticky \/ BIsOdd(half)) THEN BAdd(half, <<1>>) ELSE half
  IN  IF m = <<>> THEN DZero(neg)
      ELSE IF bexp + (IF BitLen(m) = 54 THEN 1 ELSE 0) > MaxBExp THEN DInf(neg)
      ELSE IF BitLen(m) = 54 THEN DFinite(neg, BShr(m, 1).q, bexp + 1)
      ELSE DFinite(neg, m, bexp)

\* Drops the low drop binary digits of the quotient d at 2^bexp.
RoundDrop(neg, d, bexp, drop) ==
  LET cut == BShr(d.q, drop - 1)
  IN  RoundNearest(neg, BShr(cut.q, 1).q, BIsOdd(cut.q), d.sticky \/ cut.sticky,
                   bexp + drop)

\* n is shifted left by s binary digits before the division; as many low
\* digits of the quotient are dropped as leaves 53, or more when the result
\* is subnormal (gradual underflow).
RoundShifted(neg, n, p2, ds, s) ==
  LET d == BDivAll(BShl(n, s), ds)
  IN  RoundDrop(neg, d, p2 - s,
                IF MinBExp - (p2 - s) > BitLen(d.q) - 53 THEN MinBExp - (p2 - s)
                ELSE BitLen(d.q) - 53)

\* The double nearest to (-1)^neg * n * 2^p2 / (ds[1] * ... * ds[k]).  The
\* quotient is computed to 56 binary digits or more, and the part of it
\* that is dropped decides the rounding.
RoundToDouble(neg, n, p2, ds) ==
  IF n = <<>> THEN DZero(neg)
  ELSE RoundShifted(neg, n, p2, ds,
                    IF 56 + SumBitLens(ds) > BitLen(n)
                    THEN 56 + SumBitLens(ds) - BitLen(n) ELSE 0)

\* The sum of (-1)^xneg * a and (-1)^yneg * b, both at 2^bexp.
DAddAligned(xneg, a, yneg, b, bexp) ==
  IF xneg # yneg /\ a = b THEN DZero(FALSE)
  ELSE RoundToDouble(IF xneg # yneg /\ BLess(a, b) THEN yneg ELSE xneg,
                     IF xneg = yneg THEN BAdd(a, b)
                     ELSE IF BLess(a, b) THEN BSub(b, a) ELSE BSub(a, b),
                     bexp, <<>>)

\* x + y.
DAdd(x, y) ==
  IF x.nan \/ y.nan THEN DNaN
  ELSE IF x.inf \/ y.inf
  THEN IF x.inf /\ y.inf THEN (IF x.neg = y.neg THEN x ELSE DNaN)
       ELSE IF x.inf THEN x ELSE y
  ELSE IF x.sig = <<>> /\ y.sig = <<>> THEN DZero(x.neg /\ y.neg)
  ELSE IF x.sig = <<>> THEN y
  ELSE IF y.sig = <<>> THEN x
  ELSE LET emin == IF x.bexp < y.bexp THEN x.bexp ELSE y.bexp
       IN  DAddAligned(x.neg, BShl(x.sig, x.bexp - emin), y.neg,
                       BShl(y.sig, y.bexp - emin), emin)

\* x - y.
DSub(x, y) == DAdd(x, IF y.nan THEN y ELSE [y EXCEPT !.neg = ~y.neg])

\* x * k, for an integer 0 < k < Limb.
DMulInt(x, k) ==
  IF x.nan \/ x.inf THEN x
  ELSE RoundToDouble(x.neg, BMulSmall(x.sig, k), x.bexp, <<>>)

\* x / k, for an integer 0 < k < Limb.
DDivInt(x, k) ==
  IF x.nan \/ x.inf THEN x
  ELSE RoundToDouble(x.neg, x.sig, x.bexp, <<k>>)

\* x === y.
DEq(x, y) ==
  /\ ~x.nan /\ ~y.nan
  /\ \/ x = y
     \/ ~x.inf /\ ~y.inf /\ x.sig = <<>> /\ y.sig = <<>>

\* |x| < |y| on finite numbers: by the place of the leading binary digit,
\* then by the digits.
MagLess(x, y) ==
  IF y.sig = <<>> THEN FALSE
  ELSE IF x.sig = <<>> THEN TRUE
  ELSE LET tx == BitLen(x.sig) + x.bexp
           ty == BitLen(y.sig) + y.bexp
           emin == IF x.bexp < y.bexp THEN x.bexp ELSE y.bexp
       IN  IF tx # ty THEN tx < ty
           ELSE BLess(BShl(x.sig, x.bexp - emin), BShl(y.sig, y.bexp - emin))

\* x < y on numbers that are not NaN (-0 is not less than +0).
DLess(x, y) ==
  IF x.inf \/ y.inf
  THEN IF x.inf /\ y.inf THEN x.neg /\ ~y.neg
       ELSE IF x.inf THEN x.neg ELSE ~y.neg
  ELSE IF x.sig = <<>> /\ y.sig = <<>> THEN FALSE
  ELSE IF x.neg # y.neg THEN x.neg
  ELSE IF x.neg THEN MagLess(y, x) ELSE MagLess(x, y)

\* JavaScript's x > y and x <= y on numbers: false whenever a side is NaN.
JsGreater(x, y) == ~x.nan /\ ~y.nan /\ DLess(y, x)
JsLessEq(x, y) == ~x.nan /\ ~y.nan /\ ~DLess(y, x)

Zero == DZero(FALSE)

(***************************************************************************)
(* parseFloat (ECMAScript, called at lines 371, 376, 397): skip leading    *)
(* white space, read the longest prefix that is a StrDecimalLiteral        *)
(* (sign, Infinity | digits [. digits] | . digits, optional exponent),     *)
(* ignore what follows, NaN when there is no such prefix; the result is    *)
(* the Number nearest to the decimal read.                                 *)
(***************************************************************************)
\* What is read: nothing (NaN), an infinity, or the decimal
\* (-1)^neg * mant * 10^exp, where the first digits digits of the text
\* wrote mant.
NaN == [nan |-> TRUE, inf |-> FALSE, neg |-> FALSE, mant |-> <<>>, exp |-> 0,
        digits |-> 0]
Num(neg, mant, exp, digits) ==
  [nan |-> FALSE, inf |-> FALSE, neg |-> neg, mant |-> mant, exp |-> exp,
   digits |-> digits]
Inf(neg) == [nan |-> FALSE, inf |-> TRUE, neg |-> neg, mant |-> <<>>, exp |-> 0,
             digits |-> 0]

\* The exponent part at the start of x (e or E, a sign, digits): its value,
\* 0 when x does not start with one.  An exponent beyond cap stands for cap.
ExponentPart(x, cap) ==
  LET y == IF x # <<>> /\ Head(x) \in {"e", "E"} THEN Tail(x) ELSE <<>>
      z == IF y # <<>> /\ Head(y) \in {"-", "+"} THEN Tail(y) ELSE y
  IN  IF LeadDigits(z) = 0 THEN 0
      ELSE (IF Head(y) = "-" THEN -1 ELSE 1)
             * DigitsValue(z, LeadDigits(z), cap)

\* The decimal written by ni digits of u and nf digits of w, x being the
\* text that follows them.  The exponent is applied as it is written up to
\* ni + nf + 400: a decimal of ni + nf digits that is not 0, times a power
\* of ten beyond that, is above 10^400 or below 10^-400, and so is the one
\* with the exponent ni + nf + 400; both are the same Number, Infinity or 0.
\* (For texts of fewer than 10^9 - 400 digits.)
DecimalDigits(neg, u, ni, w, nf, x) ==
  IF ni + nf = 0 THEN NaN
  ELSE Num(neg, BDigitsValue(SubSeq(u, 1, ni) \o SubSeq(w, 1, nf), ni + nf),
           ExponentPart(x, ni + nf + 400) - nf, ni + nf)

\* v is the text after the ni digits at the start of u: a dot and the
\* digits of the fraction, or no dot.
FractionDigits(neg, u, ni, v) ==
  LET hasDot == v # <<>> /\ Head(v) = "."
      w == IF hasDot THEN Tail(v) ELSE <<>>
  IN  DecimalDigits(neg, u, ni, w, LeadDigits(w),
                    IF hasDot THEN Drop(w, LeadDigits(w)) ELSE v)

StrDecimalLiteral(str) ==
  LET t == SkipWs(str)
      neg == t # <<>> /\ Head(t) = "-"
      u == IF t # <<>> /\ Head(t) \in {"-", "+"} THEN Tail(t) ELSE t
  IN  IF Len(u) >= 8 /\ SubSeq(u, 1, 8) = InfinityText THEN Inf(neg)
      ELSE FractionDigits(neg, u, LeadDigits(u), Drop(u, LeadDigits(u)))

\* The Number value for the decimal read (the last step of parseFloat).  A
\* decimal of d digits times
\* 10^exp is below 10^(d + exp): below 10^-330 it rounds to 0; a decimal
\* that is not 0 times 10^310 or more rounds to Infinity.
DFromDecimal(n) ==
  IF n.nan THEN DNaN
  ELSE IF n.inf THEN DInf(n.neg)
  ELSE IF n.mant = <<>> THEN DZero(n.neg)
  ELSE IF n.exp > 310 THEN DInf(n.neg)
  ELSE IF n.digits + n.exp < -330 THEN DZero(n.neg)
  ELSE RoundToDouble(n.neg,
                     IF n.exp >= 0 THEN BMulPow10(n.mant, n.exp) ELSE n.mant,
                     0,
                     IF n.exp >= 0 THEN <<>> ELSE Pow10Divisors(-n.exp))

parseFloat(str) == DFromDecimal(StrDecimalLiteral(str))

(***************************************************************************)
(* calculateWithdrawalAmounts (lines 396-411).                             *)
(***************************************************************************)
calculateWithdrawalAmounts(withdrawAmount) ==
  LET withdrawAmountNum == parseFloat(withdrawAmount)
      relayFeeBPS == DEFAULT_RELAY_FEE_BPS
      executionFee == DDivInt(DMulInt(withdrawAmountNum, relayFeeBPS), BPS_DENOMINATOR)
      youReceive == DSub(withdrawAmountNum, executionFee)
  IN  [withdrawAmount |-> withdrawAmountNum,
       executionFee |-> executionFee,
       youReceive |-> youReceive,
       relayFeeBPS |-> relayFeeBPS]

(***************************************************************************)
(* isAddress (viem, called at line 380): the well-formed 20-byte hex       *)
(* addresses among the recipient texts of the model.                       *)
(***************************************************************************)
isAddress(a) == a \in {"0xRecipientA", "0xRecipientB"}

(***************************************************************************)
(* Credentials.  A private key is a string, "" when absent or empty.  A    *)
(* mnemonic comes as a phrase (a text) or as a list of words already       *)
(* split (line 94 tests which).  An absent mnemonic is the empty phrase;   *)
(* JavaScript takes an empty text for false and any list, the empty one    *)
(* too, for true.                                                          *)
(***************************************************************************)
Phrase(text) == [isArray |-> FALSE, value |-> text]
WordList(words) == [isArray |-> TRUE, value |-> words]
NoMnemonic == Phrase(<<>>)

\* if (accountKeys.mnemonic), lines 93 and 384.
HasMnemonic(accountKeys) ==
  accountKeys.mnemonic.isArray \/ accountKeys.mnemonic.value # <<>>

(***************************************************************************)
(* validateWithdrawalRequest (lines 364-387).  A request is                *)
(*   [noteData, withdrawAmount, recipientAddress, accountKeys]             *)
(* where noteData is {} (null / undefined) or a one-element set holding    *)
(* the note [commitment, amount, label, noteIndex].  The result is "ok"    *)
(* or the message of the Error thrown.                                     *)
(***************************************************************************)
ErrInvalidNote == "Invalid note data"
ErrInvalidAmount == "Invalid withdrawal amount"
ErrExceedsBalance == "Withdrawal amount exceeds note balance"
ErrInvalidRecipient == "Invalid recipient address"
ErrNoKeysProvided == "No account keys provided"

TheNote(q) == CHOOSE n \in q.noteData : TRUE

\* A validation that looks at the recipient before the amount.
validateWithdrawalRequest_RecipientFirst(q) ==
  IF q.noteData = {} \/ TheNote(q).commitment = <<>> THEN ErrInvalidNote
  ELSE IF q.recipientAddress = "" \/ ~isAddress(q.recipientAddress)
       THEN ErrInvalidRecipient
  ELSE IF q.withdrawAmount = <<>>
          \/ JsLessEq(parseFloat(q.withdrawAmount), Zero)
       THEN ErrInvalidAmount
  ELSE IF JsGreater(parseFloat(q.withdrawAmount), parseFloat(TheNote(q).amount))
       THEN ErrExceedsBalance
  ELSE IF q.accountKeys.privateKey = "" /\ ~HasMnemonic(q.accountKeys)
       THEN ErrNoKeysProvided
  ELSE "ok"

validateWithdrawalRequest(q) ==
  IF q.noteData = {} \/ TheNote(q).commitment = <<>> THEN ErrInvalidNote
  ELSE IF q.withdrawAmount = <<>>
          \/ JsLessEq(parseFloat(q.withdrawAmount), Zero)
       THEN ErrInvalidAmount
  ELSE IF JsGreater(parseFloat(q.withdrawAmount), parseFloat(TheNote(q).amount))
       THEN ErrExceedsBalance
  ELSE IF q.recipientAddress = "" \/ ~isAddress(q.recipientAddress)
       THEN ErrInvalidRecipient
  ELSE IF q.accountKeys.privateKey = "" /\ ~HasMnemonic(q.accountKeys)
       THEN ErrNoKeysProvided
  ELSE "ok"


(***************************************************************************)
(* Collaborators whose code is outside this file.  Hashing, encoding and   *)
(* derivation are kept symbolic: the value records what it was computed    *)
(* from, so equal values mean equal inputs.                                *)
(***************************************************************************)
\* keccak256 reduced modulo SNARK_SCALAR_FIELD (lines 82-85).
hashToBigInt(data) == [keccakModField |-> data]

\* encodeAbiParameters of (tuple(address, bytes), uint256) (viem, lines 154-160).
encodeAbiParameters(struct, scope) == <<struct, scope>>

\* createWithdrawalData (contractService): the tuple
\* (relay processor address, encode(recipient, relay fee basis points)).
createWithdrawalData(recipient, processooor, feeBps) ==
  <<processooor, [recipient |-> recipient, feeBps |-> feeBps]>>

\* deriveNullifier / deriveSecret (hooks/useDepositCommitment): deterministic
\* in (key, pool, index).
deriveNullifier(key, pool, index) ==
  [kind |-> "nullifier", key |-> key, pool |-> pool, index |-> index]
deriveSecret(key, pool, index) ==
  [kind |-> "secret", key |-> key, pool |-> pool, index |-> index]

\* String.prototype.split(sep) on a text (line 96): the pieces between the
\* separators, an empty piece where two of them meet or one of them ends
\* the text.
Split(s, sep) ==
  LET at == {i \in 1 .. Len(s) : s[i] = sep}
      n == Cardinality(at)
      Cut(k) ==
        IF k = 0 THEN 0
        ELSE IF k = n + 1 THEN Len(s) + 1
        ELSE CHOOSE p \in at : Cardinality({x \in at : x < p}) = k - 1
  IN  [k \in 1 .. (n + 1) |-> SubSeq(s, Cut(k - 1) + 1, Cut(k) - 1)]

\* restoreFromMnemonic (utils/crypto): the key a word list restores; the
\* words "a", "b" restore the key "k2".
WordsAB == << <<"a">>, <<"b">> >>
MnemonicAB == Phrase(<<"a", " ", "b">>)
restoreFromMnemonic(words) ==
  [privateKey |-> IF words = WordsAB THEN "k2" ELSE "k1"]

\* Lines 94-96: the word list handed to restoreFromMnemonic.
mnemonicArray(mnemonic) ==
  IF mnemonic.isArray THEN mnemonic.value ELSE Split(mnemonic.value, " ")

NoKeyMessage == "No account key available for nullifier generation"

\* A key resolution that looks at the mnemonic before the private key.
getAccountKey_MnemonicFirst(accountKeys) ==
  IF HasMnemonic(accountKeys)
  THEN [ok |-> TRUE,
        key |-> restoreFromMnemonic(mnemonicArray(accountKeys.mnemonic)).privateKey,
        error |-> ""]
  ELSE IF accountKeys.privateKey # ""
  THEN [ok |-> TRUE, key |-> accountKeys.privateKey, error |-> ""]
  ELSE [ok |-> FALSE, key |-> "", error |-> NoKeyMessage]

\* getAccountKey (lines 90-102): [ok, key] or [ok = FALSE, error].
getAccountKey(accountKeys) ==
  IF accountKeys.privateKey # ""
  THEN [ok |-> TRUE, key |-> accountKeys.privateKey, error |-> ""]
  ELSE IF HasMnemonic(accountKeys)
  THEN [ok |-> TRUE,
        key |-> restoreFromMnemonic(mnemonicArray(accountKeys.mnemonic)).privateKey,
        error |-> ""]
  ELSE [ok |-> FALSE, key |-> "", error |-> NoKeyMessage]

\* parseEther (viem, lines 222 and 225) accepts exactly the texts
\* [-] digits [. digits]; any other text makes it throw.
parseEtherAccepts(s) ==
  LET u == IF s # <<>> /\ Head(s) = "-" THEN Tail(s) ELSE s
      ni == LeadDigits(u)
      v == Drop(u, ni)
      w == IF v # <<>> /\ Head(v) = "." THEN Tail(v) ELSE v
  IN  Drop(w, LeadDigits(w)) = <<>>

AllIn(s, chars) == s # <<>> /\ \A i \in 1 .. Len(s) : s[i] \in chars

\* BigInt(text) (lines 221 and 227) accepts, white space at both ends
\* aside, the empty text, decimal digits with an optional sign, and binary,
\* octal and hexadecimal digits after 0b, 0o and 0x; any other text makes
\* it throw a SyntaxError.
BigIntAccepts(s) ==
  LET t == TrimEnd(SkipWs(s))
      u == IF t # <<>> /\ Head(t) \in {"-", "+"} THEN Tail(t) ELSE t
      prefixed == Len(t) >= 2 /\ t[1] = "0"
  IN  \/ t = <<>>
      \/ AllIn(u, Digits)
      \/ prefixed /\ t[2] \in {"x", "X"}
           /\ AllIn(Drop(t, 2),
                    Digits \cup {"a", "b", "c", "d", "e", "f",
                                 "A", "B", "C", "D", "E", "F"})
      \/ prefixed /\ t[2] \in {"o", "O"}
           /\ AllIn(Drop(t, 2), {"0", "1", "2", "3", "4", "5", "6", "7"})
      \/ prefixed /\ t[2] \in {"b", "B"} /\ AllIn(Drop(t, 2), {"0", "1"})


(***************************************************************************)
(* Inputs                                                                  *)
(***************************************************************************)
Keys == {"k1", "k2"}

Note(commitment, amount, index) ==
  [commitment |-> commitment, amount |-> amount, label |-> <<"7">>,
   noteIndex |-> index]

Request(note, amount, recipient, privateKey, mnemonic) ==
  [noteData |-> note, withdrawAmount |-> amount, recipientAddress |-> recipient,
   accountKeys |-> [privateKey |-> privateKey, mnemonic |-> mnemonic]]

Commitment111 == <<"1", "1", "1">>
OneEther == <<"1", ".", "0">>
HalfEther == <<"0", ".", "5">>

\* The requests of the runs that overlap: well-formed ones, by direct key
\* "k1" and by a mnemonic that restores "k2", spending the first note.
PipelineRequests ==
  { Request({Note(Commitment111, OneEther, 0)}, HalfEther, "0xRecipientA", "k1",
            NoMnemonic),
    Request({Note(Commitment111, OneEther, 0)}, HalfEther, "0xRecipientB", "",
            MnemonicAB) }

\* The requests a caller may build, valid or not: every combination of the
\* field values below.  validateWithdrawalRequest accepts any of them as
\* input; processWithdrawal is typed to receive a request that has a note,
\* and nothing in it looks at validity.
CallerNotes ==
  { {}, {Note(<<>>, OneEther, 0)}, {Note(Commitment111, OneEther, 0)},
    {Note(Commitment111, OneEther, 1)}, {Note(<<"a", "b", "c">>, OneEther, 0)} }
CallerAmounts ==
  { <<>>, <<"0">>, HalfEther, <<"2">>, <<"-", "1">>, <<"a", "b", "c">>,
    <<"1", "e", "1">>, <<"\t", "2">> }
CallerRecipients == {"", "not-an-address", "0xRecipientA"}
CallerKeys ==
  { [privateKey |-> "k1", mnemonic |-> NoMnemonic],
    [privateKey |-> "", mnemonic |-> MnemonicAB],
    [privateKey |-> "", mnemonic |-> WordList(WordsAB)],
    [privateKey |-> "k1", mnemonic |-> MnemonicAB],
    [privateKey |-> "", mnemonic |-> NoMnemonic] }
CallerRequests ==
  { [noteData |-> n, withdrawAmount |-> a, recipientAddress |-> t,
     accountKeys |-> k] :
      n \in CallerNotes, a \in CallerAmounts, t \in CallerRecipients,
      k \in CallerKeys }

(***************************************************************************)
(* State                                                                   *)
(***************************************************************************)
Fetches == {"fetchStateTreeLeaves", "fetchASPData", "fetchPoolScope"}

VARIABLES
  pc,         \* per run: "idle"; "step1" .. "step4": the step function is at
              \*   an await; "ret1" .. "ret4": the step function has returned
              \*   or thrown and the function that awaits it has not gone on
              \*   yet; "done", "failed": the caller has its answer
  entry,      \* per run: "none", or the function the caller called
  req,        \* per run: {} or {the request of the run}
  verdict,    \* per run: "none", or what validateWithdrawalRequest gave the caller
  pending,    \* per run: the collaborator calls issued and not yet settled
              \*   (for a failed run: the calls it abandoned when it failed)
  fetchRes,   \* per run and fetch: "none", "ok", "failed"
  fetched,    \* per run and fetch: {} or {the value the fetch fulfilled with}
  answer,     \* per run: {} or {the index getNextNoteIndex fulfilled with}
  raised,     \* per run: "" or the error on its way to the caller: what the
              \*   awaited promise rejected with, or what a step threw
  frame,      \* per run: {} or {locals of calculateWithdrawalContext across its await}
  ctx,        \* per run: {} or {the WithdrawalContext step 2 returned}
  proofData,  \* per run: {} or {the WithdrawalProofData step 3 returned}
  client,     \* per run: {} or {the smart account client step 4 created}
  result,     \* per run: {} or {the PreparedWithdrawal returned to the caller}
  err,        \* per run: "" or the error the caller's call rejected with
  log,        \* per run: the step boundaries and collaborator calls, in order
  lastUsed,   \* index tracker: per account key, the largest index in use
  submitted,  \* per run: "no", or the entry point that submitted its operation
  tx,         \* per run: "none", or how far the submission has got
  amounts     \* {} or {an amount text with what calculateWithdrawalAmounts gave}

vars == <<pc, entry, req, verdict, pending, fetchRes, fetched, answer, raised,
          frame, ctx, proofData, client, result, err, log, lastUsed, submitted,
          tx, amounts>>

Ev(op, arg) == [op |-> op, arg |-> arg]
Begin(k) == Ev("begin", k)
End(k) == Ev("end", k)
Throw(k) == Ev("throw", k)
Call(op) == Ev(op, 0)

TheReq(r) == CHOOSE q \in req[r] : TRUE
TheFrame(r) == CHOOSE f \in frame[r] : TRUE
TheCtx(r) == CHOOSE c \in ctx[r] : TRUE
TheProof(r) == CHOOSE p \in proofData[r] : TRUE
TheClient(r) == CHOOSE c \in client[r] : TRUE
TheResult(r) == CHOOSE p \in result[r] : TRUE
TheAnswer(r) == CHOOSE i \in answer[r] : TRUE

\* The step a position of a run belongs to, and the positions of a step.
AtAwait == {"step1", "step2", "step3", "step4"}
Returned == {"ret1", "ret2", "ret3", "ret4"}
StepNo(p) ==
  CASE p \in {"step1", "ret1"} -> 1 [] p \in {"step2", "ret2"} -> 2
    [] p \in {"step3", "ret3"} -> 3 [] p \in {"step4", "ret4"} -> 4
Ret(k) == CASE k = 1 -> "ret1" [] k = 2 -> "ret2" [] k = 3 -> "ret3" [] k = 4 -> "ret4"

\* The snapshot each data source returns.
FetchValue(f) ==
  CASE f = "fetchStateTreeLeaves" -> "leaves1"
    [] f = "fetchASPData" -> "asp1"
    [] f = "fetchPoolScope" -> "scope1"

\* The pool scope is read from the chain at every run: the answer of one
\* run need not be the answer of another.
PoolScopes == {FetchValue("fetchPoolScope"), "scope2"}

\* What a fetch may fulfil with, the pool answering with one of scopes.
Snapshots(f, scopes) == IF f = "fetchPoolScope" THEN scopes ELSE {FetchValue(f)}

Init ==
  /\ pc = [r \in Runs |-> "idle"]
  /\ entry = [r \in Runs |-> "none"]
  /\ req = [r \in Runs |-> {}]
  /\ verdict = [r \in Runs |-> "none"]
  /\ pending = [r \in Runs |-> {}]
  /\ fetchRes = [r \in Runs |-> [f \in Fetches |-> "none"]]
  /\ fetched = [r \in Runs |-> [f \in Fetches |-> {}]]
  /\ answer = [r \in Runs |-> {}]
  /\ raised = [r \in Runs |-> ""]
  /\ frame = [r \in Runs |-> {}]
  /\ ctx = [r \in Runs |-> {}]
  /\ proofData = [r \in Runs |-> {}]
  /\ client = [r \in Runs |-> {}]
  /\ result = [r \in Runs |-> {}]
  /\ err = [r \in Runs |-> ""]
  /\ log = [r \in Runs |-> <<>>]
  /\ \E p \in 0 .. MaxPrior : lastUsed = [k \in Keys |-> p]
  /\ submitted = [r \in Runs |-> "no"]
  /\ tx = [r \in Runs |-> "none"]
  /\ amounts = {}


(***************************************************************************)
(* Note index tracker: noteCache.getNextNoteIndex (lib/noteCache, called   *)
(* at line 170).  Its code is outside this file; it is modelled as the     *)
(* specification describes it: one atomic operation that returns "last     *)
(* used + 1" for the (key, pool) pair and marks that index as in use.      *)
(* The pool is the constant ETH_PRIVACY_POOL, so the key alone addresses   *)
(* the entry.                                                              *)
(***************************************************************************)
getNextNoteIndex(tracker, key) == tracker[key] + 1
ReserveIndex(tracker, key) == [tracker EXCEPT ![key] = @ + 1]

(***************************************************************************)
(* Caller-side operations                                                  *)
(***************************************************************************)
\* A note handed to the pipeline was discovered through the note cache, so
\* its index is one the tracker already counts as used for the run's key.
NoteKnown(q) ==
  LET k == getAccountKey(q.accountKeys)
  IN  k.ok => TheNote(q).noteIndex <= lastUsed[k.key]

\* validateWithdrawalRequest(request), lines 364-387: throws or returns; it
\* touches nothing but what the caller learns from it.
Validate(r, q) ==
  /\ pc[r] = "idle"
  /\ verdict[r] = "none"
  /\ verdict' = [verdict EXCEPT ![r] = validateWithdrawalRequest(q)]
  /\ req' = [req EXCEPT ![r] = {q}]
  /\ UNCHANGED <<pc, entry, pending, fetchRes, fetched, answer, raised, frame,
                 ctx, proofData, client, result, err, log, lastUsed, submitted,
                 tx, amounts>>

(***************************************************************************)
(* processWithdrawal (lines 306-338); prepareWithdrawal (lines 343-345)    *)
(* only delegates to it.                                                   *)
(***************************************************************************)
\* An entry that issues the first fetch alone, the others waiting for it
\* (three awaits in a row in place of Promise.all).
Start_OneAtATime(r, q) ==
  /\ pc[r] = "idle"
  /\ verdict[r] = "none" \/ req[r] = {q}
  /\ q.noteData # {}
  /\ NoteKnown(q)
  /\ pc' = [pc EXCEPT ![r] = "step1"]
  /\ entry' = [entry EXCEPT ![r] = "processWithdrawal"]
  /\ req' = [req EXCEPT ![r] = {q}]
  /\ pending' = [pending EXCEPT ![r] = {"fetchStateTreeLeaves"}]
  /\ log' = [log EXCEPT ![r] = <<Begin(1), Call("fetchStateTreeLeaves")>>]
  /\ UNCHANGED <<verdict, fetchRes, fetched, answer, raised, frame, ctx,
                 proofData, client, result, err, lastUsed, submitted, tx,
                 amounts>>

\* Entry up to the await of Promise.all (lines 307-311, 114-121): the three
\* fetches are issued one after the other in the same turn.
Start(r, q) ==
  /\ pc[r] = "idle"
  /\ verdict[r] = "none" \/ req[r] = {q}
  /\ q.noteData # {}
  /\ NoteKnown(q)
  /\ pc' = [pc EXCEPT ![r] = "step1"]
  /\ entry' = [entry EXCEPT ![r] = "processWithdrawal"]
  /\ req' = [req EXCEPT ![r] = {q}]
  /\ pending' = [pending EXCEPT ![r] = Fetches]
  /\ log' = [log EXCEPT ![r] =
               <<Begin(1), Call("fetchStateTreeLeaves"), Call("fetchASPData"),
                 Call("fetchPoolScope")>>]
  /\ UNCHANGED <<verdict, fetchRes, fetched, answer, raised, frame, ctx,
                 proofData, client, result, err, lastUsed, submitted, tx,
                 amounts>>

\* A fetch fulfils with v.  Promise.all (line 117) takes note of it.  (A
\* fetch may settle for as long as fetchWithdrawalData has not gone on;
\* what an abandoned fetch settles to later is read by nobody.)
FetchOk(r, f, v) ==
  /\ f \in pending[r] /\ f \in Fetches
  /\ pc[r] = "step1"
  /\ fetchRes' = [fetchRes EXCEPT ![r][f] = "ok"]
  /\ fetched' = [fetched EXCEPT ![r][f] = {v}]
  /\ pending' = [pending EXCEPT ![r] = @ \ {f}]
  /\ UNCHANGED <<pc, entry, req, verdict, answer, raised, frame, ctx, proofData,
                 client, result, err, log, lastUsed, submitted, tx, amounts>>

FetchError(f) == "DataFetchError: " \o f

\* A rejected fetch that is swallowed: its result is recorded and the join
\* keeps waiting instead of rejecting.
FetchFail_Swallowed(r, f) ==
  /\ f \in pending[r] /\ f \in Fetches
  /\ pc[r] = "step1"
  /\ fetchRes' = [fetchRes EXCEPT ![r][f] = "failed"]
  /\ pending' = [pending EXCEPT ![r] = @ \ {f}]
  /\ UNCHANGED <<pc, entry, req, verdict, fetched, answer, raised, frame, ctx,
                 proofData, client, result, err, log, lastUsed, submitted, tx,
                 amounts>>

\* A fetch rejects.  Promise.all (line 117) rejects with the first
\* rejection it sees, without waiting for the fetches still outstanding; a
\* later rejection changes nothing.
FetchFail(r, f) ==
  /\ f \in pending[r] /\ f \in Fetches
  /\ pc[r] = "step1"
  /\ fetchRes' = [fetchRes EXCEPT ![r][f] = "failed"]
  /\ pending' = [pending EXCEPT ![r] = @ \ {f}]
  /\ raised' = [raised EXCEPT ![r] = IF @ = "" THEN FetchError(f) ELSE @]
  /\ UNCHANGED <<pc, entry, req, verdict, fetched, answer, frame, ctx,
                 proofData, client, result, err, log, lastUsed, submitted, tx,
                 amounts>>

\* A join that goes on as soon as one fetch has fulfilled (Promise.race in
\* place of Promise.all).
JoinReady_FirstFulfilled(r) == \E f \in Fetches : fetchRes[r][f] = "ok"

\* Promise.all (line 117) fulfils when all three have fulfilled.
JoinReady(r) == \A f \in Fetches : fetchRes[r][f] = "ok"

\* fetchWithdrawalData goes on after its await and returns (lines 117-130).
FetchReturn(r) ==
  /\ pc[r] = "step1"
  /\ raised[r] = ""
  /\ JoinReady(r)
  /\ log' = [log EXCEPT ![r] = Append(@, End(1))]
  /\ pc' = [pc EXCEPT ![r] = "ret1"]
  /\ UNCHANGED <<entry, req, verdict, pending, fetchRes, fetched, answer,
                 raised, frame, ctx, proofData, client, result, err, lastUsed,
                 submitted, tx, amounts>>

\* What fetchWithdrawalData returns (line 130).  A value that is not there
\* reads as undefined.
ValueOf(got) == IF got = {} THEN "undefined" ELSE CHOOSE v \in got : TRUE

FetchedData(got) ==
  [stateTreeLeaves |-> ValueOf(got["fetchStateTreeLeaves"]),
   aspData |-> ValueOf(got["fetchASPData"]),
   poolScope |-> ValueOf(got["fetchPoolScope"])]

\* A context scalar computed over a pool scope that is kept from the first
\* run that fetched one, instead of the scope the run itself has fetched.
ContextHash_CachedScope(q, poolScope) ==
  LET withdrawalDataStruct ==
        createWithdrawalData(q.recipientAddress, PAYMASTER, DEFAULT_RELAY_FEE_BPS)
      cachedScope ==
        IF fetched[1]["fetchPoolScope"] # {}
        THEN ValueOf(fetched[1]["fetchPoolScope"])
        ELSE poolScope
  IN  [withdrawalData |-> withdrawalDataStruct,
       context |->
         hashToBigInt(encodeAbiParameters(withdrawalDataStruct, cachedScope))]

\* Lines 146-161: the withdrawal-data tuple and the context scalar.
ContextHash(q, poolScope) ==
  LET withdrawalDataStruct ==
        createWithdrawalData(q.recipientAddress, PAYMASTER, DEFAULT_RELAY_FEE_BPS)
  IN  [withdrawalData |-> withdrawalDataStruct,
       context |-> hashToBigInt(encodeAbiParameters(withdrawalDataStruct, poolScope))]

\* The locals calculateWithdrawalContext holds at its await (line 170).
ContextFrame(q, data) ==
  LET h == ContextHash(q, data.poolScope)
  IN  [stateTreeLeaves |-> data.stateTreeLeaves,
       aspData |-> data.aspData,
       poolScope |-> data.poolScope,
       accountKey |-> getAccountKey(q.accountKeys).key,
       withdrawalData |-> h.withdrawalData,
       context |-> h.context]

\* What calculateWithdrawalContext logs from its entry to getAccountKey.
ContextEntryLog ==
  <<Begin(2), Call("createWithdrawalData"), Call("hashToBigInt"),
    Call("getAccountKey")>>

\* A context calculation that asks the tracker before it looks at the
\* credentials: with no credentials an index is consumed (under the first
\* key) and then the missing key is reported.
calculateWithdrawalContext_TrackerFirst(r, q, data) ==
  LET k == getAccountKey(q.accountKeys)
  IN  IF k.ok
      THEN /\ frame' = [frame EXCEPT ![r] = {ContextFrame(q, data)}]
           /\ log' = [log EXCEPT ![r] =
                        @ \o ContextEntryLog \o <<Call("getNextNoteIndex")>>]
           /\ pending' = [pending EXCEPT ![r] = @ \cup {"getNextNoteIndex"}]
           /\ pc' = [pc EXCEPT ![r] = "step2"]
           /\ UNCHANGED <<raised, lastUsed>>
      ELSE /\ lastUsed' = ReserveIndex(lastUsed, "k1")
           /\ log' = [log EXCEPT ![r] = @ \o ContextEntryLog]
           /\ raised' = [raised EXCEPT ![r] = k.error]
           /\ pc' = [pc EXCEPT ![r] = "ret2"]
           /\ UNCHANGED <<frame, pending>>

\* calculateWithdrawalContext(request, withdrawalData) from its entry to its
\* first suspension (lines 140-170): it builds the withdrawal data and the
\* context scalar, resolves the key and asks the tracker for the next
\* index; or getAccountKey throws (lines 166, 100) and the promise it
\* returns is rejected, the tracker not asked.
calculateWithdrawalContext(r, q, data) ==
  LET k == getAccountKey(q.accountKeys)
  IN  IF k.ok
      THEN /\ frame' = [frame EXCEPT ![r] = {ContextFrame(q, data)}]
           /\ log' = [log EXCEPT ![r] =
                        @ \o ContextEntryLog \o <<Call("getNextNoteIndex")>>]
           /\ pending' = [pending EXCEPT ![r] = @ \cup {"getNextNoteIndex"}]
           /\ pc' = [pc EXCEPT ![r] = "step2"]
           /\ UNCHANGED <<raised, lastUsed>>
      ELSE /\ log' = [log EXCEPT ![r] = @ \o ContextEntryLog]
           /\ raised' = [raised EXCEPT ![r] = k.error]
           /\ pc' = [pc EXCEPT ![r] = "ret2"]
           /\ UNCHANGED <<frame, pending, lastUsed>>

\* processWithdrawal goes on after line 311 with the fetched data and calls
\* calculateWithdrawalContext (line 314).
ContextEnter(r) ==
  /\ pc[r] = "ret1"
  /\ raised[r] = ""
  /\ calculateWithdrawalContext(r, TheReq(r), FetchedData(fetched[r]))
  /\ UNCHANGED <<entry, req, verdict, fetchRes, fetched, answer, ctx, proofData,
                 client, result, err, submitted, tx, amounts>>

\* A run that can take its index only while no other run is proving (the
\* tracker held from a run's reservation to the end of its proof).
TrackerOk_BlockedByProver(r) ==
  /\ "getNextNoteIndex" \in pending[r]
  /\ \A s \in Runs \ {r} : pc[s] # "step3"
  /\ answer' = [answer EXCEPT ![r] = {getNextNoteIndex(lastUsed, TheFrame(r).accountKey)}]
  /\ lastUsed' = ReserveIndex(lastUsed, TheFrame(r).accountKey)
  /\ pending' = [pending EXCEPT ![r] = @ \ {"getNextNoteIndex"}]
  /\ UNCHANGED <<pc, entry, req, verdict, fetchRes, fetched, raised, frame, ctx,
                 proofData, client, result, err, log, submitted, tx, amounts>>

\* The tracker answers: it fulfils the call with the next index of the key
\* and counts that index as used from now on.
TrackerOk(r) ==
  /\ "getNextNoteIndex" \in pending[r]
  /\ answer' = [answer EXCEPT ![r] = {getNextNoteIndex(lastUsed, TheFrame(r).accountKey)}]
  /\ lastUsed' = ReserveIndex(lastUsed, TheFrame(r).accountKey)
  /\ pending' = [pending EXCEPT ![r] = @ \ {"getNextNoteIndex"}]
  /\ UNCHANGED <<pc, entry, req, verdict, fetchRes, fetched, raised, frame, ctx,
                 proofData, client, result, err, log, submitted, tx, amounts>>

\* The tracker call rejects: nothing is reserved.
TrackerFail(r) ==
  /\ "getNextNoteIndex" \in pending[r]
  /\ pending' = [pending EXCEPT ![r] = @ \ {"getNextNoteIndex"}]
  /\ raised' = [raised EXCEPT ![r] = "IndexTrackerError"]
  /\ UNCHANGED <<pc, entry, req, verdict, fetchRes, fetched, answer, frame, ctx,
                 proofData, client, result, err, log, lastUsed, submitted, tx,
                 amounts>>

\* A context whose next index is computed locally from the spent note
\* (its index + 1) instead of being the index the tracker returned.
WithdrawalContextOf_NoteIndexPlusOne(q, fr, nextNoteIndex) ==
  LET local == TheNote(q).noteIndex + 1
  IN  [stateTreeLeaves |-> fr.stateTreeLeaves,
       aspData |-> fr.aspData,
       poolScope |-> fr.poolScope,
       withdrawalData |-> fr.withdrawalData,
       context |-> fr.context,
       newNullifier |-> deriveNullifier(fr.accountKey, ETH_PRIVACY_POOL, local),
       newSecret |-> deriveSecret(fr.accountKey, ETH_PRIVACY_POOL, local),
       existingNullifier |->
         deriveNullifier(fr.accountKey, ETH_PRIVACY_POOL, TheNote(q).noteIndex),
       existingSecret |->
         deriveSecret(fr.accountKey, ETH_PRIVACY_POOL, TheNote(q).noteIndex),
       nextNoteIndex |-> local]

\* A context whose new nullifier and secret are derived at the spent note's
\* index (the arguments of lines 178-179 used at lines 174-175).
WithdrawalContextOf_NewAtNoteIndex(q, fr, nextNoteIndex) ==
  [stateTreeLeaves |-> fr.stateTreeLeaves,
   aspData |-> fr.aspData,
   poolScope |-> fr.poolScope,
   withdrawalData |-> fr.withdrawalData,
   context |-> fr.context,
   newNullifier |->
     deriveNullifier(fr.accountKey, ETH_PRIVACY_POOL, TheNote(q).noteIndex),
   newSecret |->
     deriveSecret(fr.accountKey, ETH_PRIVACY_POOL, TheNote(q).noteIndex),
   existingNullifier |->
     deriveNullifier(fr.accountKey, ETH_PRIVACY_POOL, TheNote(q).noteIndex),
   existingSecret |->
     deriveSecret(fr.accountKey, ETH_PRIVACY_POOL, TheNote(q).noteIndex),
   nextNoteIndex |-> nextNoteIndex]

\* A context that records the index before the one the tracker returned
\* (the returned value taken for a count of used indices).
WithdrawalContextOf_OffByOne(q, fr, nextNoteIndex) ==
  [stateTreeLeaves |-> fr.stateTreeLeaves,
   aspData |-> fr.aspData,
   poolScope |-> fr.poolScope,
   withdrawalData |-> fr.withdrawalData,
   context |-> fr.context,
   newNullifier |->
     deriveNullifier(fr.accountKey, ETH_PRIVACY_POOL, nextNoteIndex - 1),
   newSecret |-> deriveSecret(fr.accountKey, ETH_PRIVACY_POOL, nextNoteIndex - 1),
   existingNullifier |->
     deriveNullifier(fr.accountKey, ETH_PRIVACY_POOL, TheNote(q).noteIndex),
   existingSecret |->
     deriveSecret(fr.accountKey, ETH_PRIVACY_POOL, TheNote(q).noteIndex),
   nextNoteIndex |-> nextNoteIndex - 1]

\* Lines 173-195: the nullifiers and secrets and the WithdrawalContext, from
\* the request, the locals kept across the await and the index the tracker
\* returned.
WithdrawalContextOf(q, fr, nextNoteIndex) ==
  [stateTreeLeaves |-> fr.stateTreeLeaves,
   aspData |-> fr.aspData,
   poolScope |-> fr.poolScope,
   withdrawalData |-> fr.withdrawalData,
   context |-> fr.context,
   newNullifier |-> deriveNullifier(fr.accountKey, ETH_PRIVACY_POOL, nextNoteIndex),
   newSecret |-> deriveSecret(fr.accountKey, ETH_PRIVACY_POOL, nextNoteIndex),
   existingNullifier |->
     deriveNullifier(fr.accountKey, ETH_PRIVACY_POOL, TheNote(q).noteIndex),
   existingSecret |->
     deriveSecret(fr.accountKey, ETH_PRIVACY_POOL, TheNote(q).noteIndex),
   nextNoteIndex |-> nextNoteIndex]

\* What calculateWithdrawalContext logs after the tracker has answered
\* (lines 170-179), and its return.
ContextExitLog(q, returned, c) ==
  <<Ev("getNextNoteIndex:returned", returned),
    Ev("deriveNullifier", c.newNullifier.index),
    Ev("deriveSecret", c.newSecret.index),
    Ev("deriveNullifier", c.existingNullifier.index),
    Ev("deriveSecret", c.existingSecret.index),
    End(2)>>

\* calculateWithdrawalContext goes on after its await with the index the
\* tracker answered, derives the nullifiers and secrets and returns the
\* context (lines 170-195).
ContextReturn(r) ==
  /\ pc[r] = "step2"
  /\ pending[r] = {}
  /\ raised[r] = ""
  /\ LET c == WithdrawalContextOf(TheReq(r), TheFrame(r), TheAnswer(r))
     IN  /\ ctx' = [ctx EXCEPT ![r] = {c}]
         /\ log' = [log EXCEPT ![r] =
                      @ \o ContextExitLog(TheReq(r), TheAnswer(r), c)]
  /\ pc' = [pc EXCEPT ![r] = "ret2"]
  /\ UNCHANGED <<entry, req, verdict, pending, fetchRes, fetched, answer,
                 raised, frame, proofData, client, result, err, lastUsed,
                 submitted, tx, amounts>>

\* Lines 221-231: the conversions of the prover's inputs, evaluated in the
\* order they are written, before the prover is called: "" when all of
\* them succeed, or the name of the error of the first one that throws.
\* (The nullifiers and secrets, the leaves and the labels are numerals by
\* construction.)
ProofInputsError(q) ==
  IF ~BigIntAccepts(TheNote(q).commitment) THEN "SyntaxError"
  ELSE IF ~parseEtherAccepts(TheNote(q).amount) THEN "InvalidDecimalNumberError"
  ELSE IF ~parseEtherAccepts(q.withdrawAmount) THEN "InvalidDecimalNumberError"
  ELSE IF ~BigIntAccepts(TheNote(q).label) THEN "SyntaxError"
  ELSE ""

ProofInputsOf(q, c) ==
  [existingCommitmentHash |-> TheNote(q).commitment,
   existingValue |-> TheNote(q).amount,
   existingNullifier |-> c.existingNullifier,
   existingSecret |-> c.existingSecret,
   withdrawalValue |-> q.withdrawAmount,
   context |-> c.context,
   label |-> TheNote(q).label,
   newNullifier |-> c.newNullifier,
   newSecret |-> c.newSecret,
   stateTreeCommitments |-> c.stateTreeLeaves,
   aspTreeLabels |-> c.aspData]

\* processWithdrawal goes on after line 314 and calls
\* generateWithdrawalProof, which converts its inputs and calls the prover
\* (lines 205-232).
ProofEnter(r) ==
  /\ pc[r] = "ret2"
  /\ entry[r] = "processWithdrawal"
  /\ raised[r] = ""
  /\ ProofInputsError(TheReq(r)) = ""
  /\ log' = [log EXCEPT ![r] = @ \o <<Begin(3), Call("generateWithdrawalProof")>>]
  /\ pending' = [pending EXCEPT ![r] = @ \cup {"generateWithdrawalProof"}]
  /\ pc' = [pc EXCEPT ![r] = "step3"]
  /\ UNCHANGED <<entry, req, verdict, fetchRes, fetched, answer, raised, frame,
                 ctx, proofData, client, result, err, lastUsed, submitted, tx,
                 amounts>>

\* processWithdrawal goes on after line 314 and calls
\* generateWithdrawalProof, in which a conversion throws before the prover
\* is reached: the promise it returns is rejected.
ProofEnterBadInput(r) ==
  /\ pc[r] = "ret2"
  /\ entry[r] = "processWithdrawal"
  /\ raised[r] = ""
  /\ ProofInputsError(TheReq(r)) # ""
  /\ log' = [log EXCEPT ![r] = Append(@, Begin(3))]
  /\ raised' = [raised EXCEPT ![r] = ProofInputsError(TheReq(r))]
  /\ pc' = [pc EXCEPT ![r] = "ret3"]
  /\ UNCHANGED <<entry, req, verdict, pending, fetchRes, fetched, answer, frame,
                 ctx, proofData, client, result, err, lastUsed, submitted, tx,
                 amounts>>

\* The prover fulfils its call with a proof.
ProverOk(r) ==
  /\ "generateWithdrawalProof" \in pending[r]
  /\ pending' = [pending EXCEPT ![r] = @ \ {"generateWithdrawalProof"}]
  /\ UNCHANGED <<pc, entry, req, verdict, fetchRes, fetched, answer, raised,
                 frame, ctx, proofData, client, result, err, log, lastUsed,
                 submitted, tx, amounts>>

\* The prover rejects its call.
ProverFail(r) ==
  /\ "generateWithdrawalProof" \in pending[r]
  /\ pending' = [pending EXCEPT ![r] = @ \ {"generateWithdrawalProof"}]
  /\ raised' = [raised EXCEPT ![r] = "ProofGenerationError"]
  /\ UNCHANGED <<pc, entry, req, verdict, fetchRes, fetched, answer, frame, ctx,
                 proofData, client, result, err, log, lastUsed, submitted, tx,
                 amounts>>

\* generateWithdrawalProof goes on after its await and returns the proof
\* (lines 220-236).
ProofReturn(r) ==
  /\ pc[r] = "step3"
  /\ pending[r] = {}
  /\ raised[r] = ""
  /\ proofData' = [proofData EXCEPT ![r] =
                     {[proof |-> [provedFor |-> ProofInputsOf(TheReq(r), TheCtx(r))],
                       publicSignals |-> <<TheCtx(r).context>>]}]
  /\ log' = [log EXCEPT ![r] = Append(@, End(3))]
  /\ pc' = [pc EXCEPT ![r] = "ret3"]
  /\ UNCHANGED <<entry, req, verdict, pending, fetchRes, fetched, answer,
                 raised, frame, ctx, client, result, err, lastUsed, submitted,
                 tx, amounts>>

\* processWithdrawal goes on after line 317 and calls
\* prepareWithdrawalTransaction, which runs up to its first await (lines
\* 246-267).
TransactionEnter(r) ==
  /\ pc[r] = "ret3"
  /\ raised[r] = ""
  /\ log' = [log EXCEPT ![r] =
               @ \o <<Begin(4), Call("formatProofForContract"),
                      Call("encodeRelayCallData"),
                      Call("createWithdrawalSmartAccountClient")>>]
  /\ pending' = [pending EXCEPT ![r] = @ \cup {"createWithdrawalSmartAccountClient"}]
  /\ pc' = [pc EXCEPT ![r] = "step4"]
  /\ UNCHANGED <<entry, req, verdict, fetchRes, fetched, answer, raised, frame,
                 ctx, proofData, client, result, err, lastUsed, submitted, tx,
                 amounts>>

\* createWithdrawalSmartAccountClient fulfils its call with a client.
ClientOk(r) ==
  /\ "createWithdrawalSmartAccountClient" \in pending[r]
  /\ pending' = [pending EXCEPT ![r] = @ \ {"createWithdrawalSmartAccountClient"}]
  /\ UNCHANGED <<pc, entry, req, verdict, fetchRes, fetched, answer, raised,
                 frame, ctx, proofData, client, result, err, log, lastUsed,
                 submitted, tx, amounts>>

\* createWithdrawalSmartAccountClient rejects its call.
ClientFail(r) ==
  /\ "createWithdrawalSmartAccountClient" \in pending[r]
  /\ pending' = [pending EXCEPT ![r] = @ \ {"createWithdrawalSmartAccountClient"}]
  /\ raised' = [raised EXCEPT ![r] = "AccountSetupError"]
  /\ UNCHANGED <<pc, entry, req, verdict, fetchRes, fetched, answer, frame, ctx,
                 proofData, client, result, err, log, lastUsed, submitted, tx,
                 amounts>>

\* prepareWithdrawalTransaction goes on after its first await with the
\* client and asks for the user operation (lines 267-273).
ClientResume(r) ==
  /\ pc[r] = "step4"
  /\ client[r] = {}
  /\ pending[r] = {}
  /\ raised[r] = ""
  /\ client' = [client EXCEPT ![r] = {"smartAccountClient"}]
  /\ log' = [log EXCEPT ![r] = Append(@, Call("prepareWithdrawalUserOperation"))]
  /\ pending' = [pending EXCEPT ![r] = {"prepareWithdrawalUserOperation"}]
  /\ UNCHANGED <<pc, entry, req, verdict, fetchRes, fetched, answer, raised,
                 frame, ctx, proofData, result, err, lastUsed, submitted, tx,
                 amounts>>

\* prepareWithdrawalUserOperation fulfils its call with the operation.
UserOpOk(r) ==
  /\ "prepareWithdrawalUserOperation" \in pending[r]
  /\ pending' = [pending EXCEPT ![r] = @ \ {"prepareWithdrawalUserOperation"}]
  /\ UNCHANGED <<pc, entry, req, verdict, fetchRes, fetched, answer, raised,
                 frame, ctx, proofData, client, result, err, log, lastUsed,
                 submitted, tx, amounts>>

\* prepareWithdrawalUserOperation rejects its call.
UserOpFail(r) ==
  /\ "prepareWithdrawalUserOperation" \in pending[r]
  /\ pending' = [pending EXCEPT ![r] = @ \ {"prepareWithdrawalUserOperation"}]
  /\ raised' = [raised EXCEPT ![r] = "EncodingError"]
  /\ UNCHANGED <<pc, entry, req, verdict, fetchRes, fetched, answer, frame, ctx,
                 proofData, client, result, err, log, lastUsed, submitted, tx,
                 amounts>>

\* prepareWithdrawalTransaction goes on after its second await and returns
\* the operation and the client (lines 270-278).
TransactionReturn(r) ==
  /\ pc[r] = "step4"
  /\ client[r] # {}
  /\ pending[r] = {}
  /\ raised[r] = ""
  /\ log' = [log EXCEPT ![r] = Append(@, End(4))]
  /\ pc' = [pc EXCEPT ![r] = "ret4"]
  /\ UNCHANGED <<entry, req, verdict, pending, fetchRes, fetched, answer,
                 raised, frame, ctx, proofData, client, result, err, lastUsed,
                 submitted, tx, amounts>>

\* Lines 251-264: the relay call data, from the context's withdrawal-data
\* tuple and pool scope and the formatted proof.
RelayCallDataOf(c, p) ==
  [withdrawal |-> [processooor |-> c.withdrawalData[1], data |-> c.withdrawalData[2]],
   proof |-> [formatted |-> p.proof, signals |-> p.publicSignals],
   scope |-> c.poolScope]

\* Lines 327-332: the PreparedWithdrawal of a run.
PreparedWithdrawalOf(r) ==
  [context |-> TheCtx(r),
   proofData |-> TheProof(r),
   userOperation |->
     [sender |-> TheClient(r),
      callData |-> RelayCallDataOf(TheCtx(r), TheProof(r))],
   smartAccountClient |-> TheClient(r)]

\* A preparation that also submits the operation it has just prepared.
Return_AutoExecute(r) ==
  /\ pc[r] = "ret4"
  /\ raised[r] = ""
  /\ result' = [result EXCEPT ![r] = {PreparedWithdrawalOf(r)}]
  /\ pc' = [pc EXCEPT ![r] = "done"]
  /\ submitted' = [submitted EXCEPT ![r] = "executeWithdrawal"]
  /\ UNCHANGED <<entry, req, verdict, pending, fetchRes, fetched, answer,
                 raised, frame, ctx, proofData, client, err, log, lastUsed, tx,
                 amounts>>

\* processWithdrawal goes on after line 320 and returns the
\* PreparedWithdrawal to its caller (lines 325-332).
Return(r) ==
  /\ pc[r] = "ret4"
  /\ raised[r] = ""
  /\ result' = [result EXCEPT ![r] = {PreparedWithdrawalOf(r)}]
  /\ pc' = [pc EXCEPT ![r] = "done"]
  /\ UNCHANGED <<entry, req, verdict, pending, fetchRes, fetched, answer,
                 raised, frame, ctx, proofData, client, err, log, lastUsed,
                 submitted, tx, amounts>>

\* The await of a step function throws what the awaited promise rejected
\* with (lines 117, 170, 220, 267, 270).  No step function has a try of its
\* own: the promise it returned is rejected with the same error.
Propagate(r) ==
  /\ pc[r] \in AtAwait
  /\ raised[r] # ""
  /\ pc' = [pc EXCEPT ![r] = Ret(StepNo(@))]
  /\ UNCHANGED <<entry, req, verdict, pending, fetchRes, fetched, answer,
                 raised, frame, ctx, proofData, client, result, err, log,
                 lastUsed, submitted, tx, amounts>>

\* A catch that passes over the failure of a step and returns what the run
\* has got so far.
Catch_PassedOver(r) ==
  /\ pc[r] \in Returned
  /\ entry[r] = "processWithdrawal"
  /\ raised[r] # ""
  /\ log' = [log EXCEPT ![r] = Append(@, Throw(StepNo(pc[r])))]
  /\ result' = [result EXCEPT ![r] =
                  {[context |-> ctx[r], proofData |-> proofData[r],
                    userOperation |-> {}, smartAccountClient |-> client[r]]}]
  /\ pc' = [pc EXCEPT ![r] = "done"]
  /\ UNCHANGED <<entry, req, verdict, pending, fetchRes, fetched, answer,
                 raised, frame, ctx, proofData, client, err, lastUsed,
                 submitted, tx, amounts>>

\* A catch that hands the caller a general error in place of the one it
\* caught.
Catch_Rewrapped(r) ==
  /\ pc[r] \in Returned
  /\ entry[r] = "processWithdrawal"
  /\ raised[r] # ""
  /\ log' = [log EXCEPT ![r] = Append(@, Throw(StepNo(pc[r])))]
  /\ err' = [err EXCEPT ![r] = "Withdrawal failed"]
  /\ pc' = [pc EXCEPT ![r] = "failed"]
  /\ UNCHANGED <<entry, req, verdict, pending, fetchRes, fetched, answer,
                 raised, frame, ctx, proofData, client, result, lastUsed,
                 submitted, tx, amounts>>

\* The await of processWithdrawal throws what the step's promise rejected
\* with; the catch logs it and throws it again (lines 334-337): the caller's
\* call rejects with that error.
Catch(r) ==
  /\ pc[r] \in Returned
  /\ entry[r] = "processWithdrawal"
  /\ raised[r] # ""
  /\ log' = [log EXCEPT ![r] = Append(@, Throw(StepNo(pc[r])))]
  /\ err' = [err EXCEPT ![r] = raised[r]]
  /\ pc' = [pc EXCEPT ![r] = "failed"]
  /\ UNCHANGED <<entry, req, verdict, pending, fetchRes, fetched, answer,
                 raised, frame, ctx, proofData, client, result, lastUsed,
                 submitted, tx, amounts>>

(***************************************************************************)
(* calculateWithdrawalContext(request, withdrawalData) called by the       *)
(* caller itself (the function is exported, lines 136-196), on data of     *)
(* the caller's own.                                                       *)
(***************************************************************************)
CallerData(scope) ==
  [stateTreeLeaves |-> FetchValue("fetchStateTreeLeaves"),
   aspData |-> FetchValue("fetchASPData"),
   poolScope |-> scope]

\* The caller calls the function on a request and data of its own.
CallContext(r, q, data) ==
  /\ pc[r] = "idle"
  /\ verdict[r] = "none" \/ req[r] = {q}
  /\ q.noteData # {}
  /\ NoteKnown(q)
  /\ entry' = [entry EXCEPT ![r] = "calculateWithdrawalContext"]
  /\ req' = [req EXCEPT ![r] = {q}]
  /\ calculateWithdrawalContext(r, q, data)
  /\ UNCHANGED <<verdict, fetchRes, fetched, answer, ctx, proofData, client,
                 result, err, submitted, tx, amounts>>

\* The caller's await of the call goes on: it holds the context, or the
\* error the call rejected with.
CallContextSettled(r) ==
  /\ pc[r] = "ret2"
  /\ entry[r] = "calculateWithdrawalContext"
  /\ pc' = [pc EXCEPT ![r] = IF raised[r] = "" THEN "done" ELSE "failed"]
  /\ err' = [err EXCEPT ![r] = raised[r]]
  /\ UNCHANGED <<entry, req, verdict, pending, fetchRes, fetched, answer,
                 raised, frame, ctx, proofData, client, result, log, lastUsed,
                 submitted, tx, amounts>>

(***************************************************************************)
(* executeWithdrawal (lines 284-299) and executePreparedWithdrawal (lines  *)
(* 350-357): the caller submits the operation of an artifact it holds.     *)
(* An artifact is submitted at most once in the model.                     *)
(***************************************************************************)
EntryPoints == {"executeWithdrawal", "executePreparedWithdrawal"}

\* The call, up to the await of executeWithdrawalUserOperation (lines
\* 288-293): the operation is handed over for submission.
Execute(r, via) ==
  /\ result[r] # {}
  /\ submitted[r] = "no"
  /\ submitted' = [submitted EXCEPT ![r] = via]
  /\ tx' = [tx EXCEPT ![r] = "pending"]
  /\ UNCHANGED <<pc, entry, req, verdict, pending, fetchRes, fetched, answer,
                 raised, frame, ctx, proofData, client, result, err, log,
                 lastUsed, amounts>>

\* executeWithdrawalUserOperation settles: with a transaction hash, or
\* with an error.
ExecuteSettles(r, outcome) ==
  /\ tx[r] = "pending"
  /\ tx' = [tx EXCEPT ![r] = outcome]
  /\ UNCHANGED <<pc, entry, req, verdict, pending, fetchRes, fetched, answer,
                 raised, frame, ctx, proofData, client, result, err, log,
                 lastUsed, submitted, amounts>>

\* executeWithdrawal goes on after its await: it returns the hash (lines
\* 295-298), or throws what the submission rejected with.
ExecuteReturn(r) ==
  /\ tx[r] \in {"fulfilled", "rejected"}
  /\ tx' = [tx EXCEPT ![r] =
              IF @ = "fulfilled" THEN "transactionHash" ELSE "ExecutionError"]
  /\ UNCHANGED <<pc, entry, req, verdict, pending, fetchRes, fetched, answer,
                 raised, frame, ctx, proofData, client, result, err, log,
                 lastUsed, submitted, amounts>>

(***************************************************************************)
(* calculateWithdrawalAmounts(withdrawAmount), lines 396-412: the caller   *)
(* asks for the fee split of an amount text.  It reads and changes nothing *)
(* of the pipeline.                                                        *)
(***************************************************************************)
\* Longest amount text the caller passes.
MaxAmountLen == 3
AmountChars == {"0", "1", "3", ".", "-", "e", "a", "\t"}
\* Amounts at the lower end of the doubles.
TinyAmounts ==
  { <<"1", "e", "-", "3", "1", "0">>, <<"2", "e", "-", "3", "2", "4">>,
    <<"3", "e", "-", "3", "2", "4">>, <<"1", "e", "-", "4", "0", "0">> }
AmountTexts ==
  UNION {[1 .. n -> AmountChars] : n \in 0 .. MaxAmountLen} \cup TinyAmounts

CalculateAmounts(s) ==
  /\ amounts = {}
  /\ amounts' = {[input |-> s, out |-> calculateWithdrawalAmounts(s)]}
  /\ UNCHANGED <<pc, entry, req, verdict, pending, fetchRes, fetched, answer,
                 raised, frame, ctx, proofData, client, result, err, log,
                 lastUsed, submitted, tx>>

(***************************************************************************)
(* Specifications                                                          *)
(***************************************************************************)
\* A fetch of a run fulfils, the pool answering with one of scopes.
Fulfil(r, scopes) ==
  \E f \in Fetches : \E v \in Snapshots(f, scopes) : FetchOk(r, f, v)

\* A collaborator that has nothing to do with the tracker or the prover
\* rejects: a data source, or the account service.
Reject(r) ==
  \/ \E f \in Fetches : FetchFail(r, f)
  \/ ClientFail(r)
  \/ UserOpFail(r)

\* The tracker and the prover settle; the account service fulfils.
Settle(r) ==
  \/ TrackerOk(r)
  \/ TrackerFail(r)
  \/ ProverOk(r)
  \/ ProverFail(r)
  \/ ClientOk(r)
  \/ UserOpOk(r)

\* The functions of a run go on after their awaits.
Step(r) ==
  \/ FetchReturn(r)
  \/ ContextEnter(r)
  \/ ContextReturn(r)
  \/ ProofEnter(r)
  \/ ProofReturn(r)
  \/ TransactionEnter(r)
  \/ ClientResume(r)
  \/ TransactionReturn(r)
  \/ Return(r)
  \/ Propagate(r)
  \/ Catch(r)

\* Runs are told apart by their number alone: they are started in the
\* order of their numbers.
InTurn(r) == \A s \in Runs : s < r => pc[s] # "idle"

\* Overlapping runs of well-formed requests, made while the data sources
\* and the account service keep answering alike.  (A run whose fetch
\* rejects ends before it has asked the tracker for anything, one that the
\* account service fails ends like one the prover fails; NextCaller has
\* those runs.)
Next ==
  \E r \in Runs :
    \/ \E q \in PipelineRequests : InTurn(r) /\ Start(r, q)
    \/ Fulfil(r, {FetchValue("fetchPoolScope")})
    \/ Settle(r)
    \/ Step(r)

Spec == Init /\ [][Next]_vars

\* The caller submits the operation of an artifact it holds.
Submit(r) ==
  \/ \E via \in EntryPoints : Execute(r, via)
  \/ \E outcome \in {"fulfilled", "rejected"} : ExecuteSettles(r, outcome)
  \/ ExecuteReturn(r)

\* One run over the whole range of requests, validated first or not.
NextCaller ==
  \/ \E q \in CallerRequests : Validate(1, q)
  \/ \E q \in CallerRequests : Start(1, q)
  \/ Fulfil(1, PoolScopes)
  \/ Reject(1)
  \/ Settle(1)
  \/ Step(1)
  \/ ProofEnterBadInput(1)
  \/ Submit(1)

SpecCaller == Init /\ [][NextCaller]_vars

\* Runs in succession: a run is started only when no other run is under way.
NextSeq ==
  \E r \in Runs :
    \/ /\ \A s \in Runs : pc[s] \in {"idle", "done", "failed"}
       /\ InTurn(r)
       /\ \E q \in PipelineRequests : Start(r, q)
    \/ Fulfil(r, {FetchValue("fetchPoolScope")})
    \/ Reject(r)
    \/ Settle(r)
    \/ Step(r)

SpecSeq == Init /\ [][NextSeq]_vars

\* Runs in succession while the scope of the pool changes: every run is
\* answered with either scope, whatever the runs before it were answered.
NextScopes ==
  \E r \in Runs :
    \/ /\ \A s \in Runs : pc[s] \in {"idle", "done", "failed"}
       /\ InTurn(r)
       /\ \E q \in PipelineRequests : Start(r, q)
    \/ Fulfil(r, PoolScopes)
    \/ Reject(r)
    \/ Settle(r)
    \/ Step(r)

SpecScopes == Init /\ [][NextScopes]_vars

\* One call of calculateWithdrawalContext by the caller itself, over the
\* whole range of requests and either answer of the pool.
NextContext ==
  \/ \E q \in CallerRequests : \E scope \in PoolScopes :
       CallContext(1, q, CallerData(scope))
  \/ TrackerOk(1)
  \/ TrackerFail(1)
  \/ ContextReturn(1)
  \/ Propagate(1)
  \/ CallContextSettled(1)

SpecContext == Init /\ [][NextContext]_vars

\* The fee split of every amount text, outside any run.
NextAmounts == \E s \in AmountTexts : CalculateAmounts(s)

SpecAmounts == Init /\ [][NextAmounts]_vars


(***************************************************************************)
(* Reading the log of a run                                                *)
(***************************************************************************)
StepOps == {"begin", "end", "throw"}
IsStepEvent(e) == e.op \in StepOps
StepEvents(l) == SelectSeq(l, IsStepEvent)

CanonicalSteps ==
  <<Begin(1), End(1), Begin(2), End(2), Begin(3), End(3), Begin(4), End(4)>>

IsPrefix(a, b) == Len(a) <= Len(b) /\ SubSeq(b, 1, Len(a)) = a

\* The step each collaborator call belongs to.
StepOfCall(op) ==
  IF op \in Fetches THEN 1
  ELSE IF op \in {"createWithdrawalData", "hashToBigInt", "getAccountKey",
                  "getNextNoteIndex", "getNextNoteIndex:returned",
                  "deriveNullifier", "deriveSecret"} THEN 2
  ELSE IF op = "generateWithdrawalProof" THEN 3
  ELSE 4

\* The step that is open after the first i events of l (0: none).
OpenStepAt(l, i) ==
  LET se == StepEvents(SubSeq(l, 1, i))
  IN  IF se # <<>> /\ se[Len(se)].op = "begin" THEN se[Len(se)].arg ELSE 0

Positions(l, op) == {i \in 1 .. Len(l) : l[i].op = op}
Has(l, e) == \E i \in 1 .. Len(l) : l[i] = e

\* The steps run in order, each begun only after the one before has ended,
\* and the run ends at the first throw.
StepsInOrder(l) ==
  LET se == StepEvents(l)
  IN  \/ IsPrefix(se, CanonicalSteps)
      \/ /\ Len(se) >= 2
         /\ se[Len(se)].op = "throw"
         /\ se[Len(se) - 1] = Begin(se[Len(se)].arg)
         /\ IsPrefix(SubSeq(se, 1, Len(se) - 1), CanonicalSteps)

\* Every collaborator call is made while its own step is the open one.
CallsInsideTheirStep(l) ==
  \A i \in 1 .. Len(l) :
    ~IsStepEvent(l[i]) => OpenStepAt(l, i) = StepOfCall(l[i].op)

\* C1: in every run the four steps happen strictly in the order
\* fetchWithdrawalData, calculateWithdrawalContext, generateWithdrawalProof,
\* prepareWithdrawalTransaction, no step starting before the previous one
\* has completed successfully (every call is made inside its own step, and
\* a step is begun only when what the step before it yields is there), and
\* only the three fetches of step 1 are ever outstanding together: in steps
\* 2 to 4 at most one call is outstanding and it is no fetch.
C1_StepsStrictlySequential ==
  \A r \in Runs :
    /\ StepsInOrder(log[r])
    /\ CallsInsideTheirStep(log[r])
    /\ Has(log[r], Begin(2)) => \A f \in Fetches : fetchRes[r][f] = "ok"
    /\ Has(log[r], Begin(3)) => ctx[r] # {}
    /\ Has(log[r], Begin(4)) => proofData[r] # {}
    /\ OpenStepAt(log[r], Len(log[r])) = 1 => pending[r] \subseteq Fetches
    /\ OpenStepAt(log[r], Len(log[r])) >= 2 =>
         /\ Cardinality(pending[r]) <= 1
         /\ pending[r] \cap Fetches = {}

\* A run that went through all four steps and returned.
C1_Witness ==
  /\ pc[1] = "done"
  /\ StepEvents(log[1]) = CanonicalSteps
  /\ Has(log[1], Call("generateWithdrawalProof"))

\* C2: when a step fails the pipeline aborts.  From the moment an error is
\* raised the run begins no step and makes no call (all it still writes is
\* the throw of the step that failed), it builds no context, proof or
\* client and returns nothing; once the caller has the error the throw is
\* the last thing the run did and there is no PreparedWithdrawal.  A
\* PreparedWithdrawal is returned only when all four steps have ended
\* without an error, and it holds the context, the proof and the operation
\* of that run.
C2_FailureAbortsPipeline ==
  /\ [](\A r \in Runs :
          /\ raised[r] # "" =>
               /\ pc[r] \in AtAwait \cup Returned \cup {"failed"}
               /\ result[r] = {}
               /\ submitted[r] = "no"
          /\ (pc[r] = "failed" \/ err[r] # "" \/ Positions(log[r], "throw") # {}) =>
               /\ pc[r] = "failed"
               /\ err[r] # ""
               /\ raised[r] # ""
               /\ Positions(log[r], "throw") = {Len(log[r])}
          /\ result[r] # {} =>
               /\ pc[r] = "done"
               /\ \A k \in 1 .. 4 : Has(log[r], End(k))
               /\ ctx[r] # {} /\ proofData[r] # {} /\ client[r] # {}
               /\ TheResult(r).context = TheCtx(r)
               /\ TheResult(r).proofData = TheProof(r)
               /\ TheResult(r).userOperation.callData
                    = RelayCallDataOf(TheCtx(r), TheProof(r)))
  /\ [][\A r \in Runs :
          raised[r] # "" =>
            /\ \/ log'[r] = log[r]
               \/ /\ pc[r] \in Returned
                  /\ log'[r] = Append(log[r], Throw(StepNo(pc[r])))
            /\ pending'[r] \subseteq pending[r]
            /\ ctx'[r] = ctx[r] /\ proofData'[r] = proofData[r]
            /\ client'[r] = client[r] /\ result'[r] = {}
            /\ pc'[r] \in {pc[r], "failed"} \cup Returned]_vars

\* A run that failed in step 3 or 4, a context (and maybe a proof) already
\* computed, and returned nothing.
C2_Witness ==
  /\ pc[1] = "failed"
  /\ ctx[1] # {}
  /\ Has(log[1], Call("generateWithdrawalProof"))
  /\ result[1] = {}

FailedFetches(r) == {f \in Fetches : fetchRes[r][f] = "failed"}

\* C3: when one of the three fetches fails, the run fails: the error of a
\* fetch that failed is on its way to the caller (and can always go on: the
\* step can throw it, the catch can hand it over) or is what the caller
\* got; the run returns nothing, builds no context, and calls neither the
\* tracker nor the prover.
C3_FetchFailureStopsBeforeProver ==
  \A r \in Runs :
    FailedFetches(r) # {} =>
      /\ raised[r] \in {FetchError(f) : f \in FailedFetches(r)}
      /\ pc[r] \in {"step1", "ret1", "failed"}
      /\ pc[r] = "step1" => ENABLED Propagate(r)
      /\ pc[r] = "ret1" => ENABLED Catch(r)
      /\ pc[r] = "failed" => err[r] = raised[r]
      /\ result[r] = {}
      /\ ctx[r] = {}
      /\ ~Has(log[r], Begin(2))
      /\ ~Has(log[r], Call("generateWithdrawalProof"))
      /\ ~Has(log[r], Call("getNextNoteIndex"))

\* The pool-scope fetch failed after the other two had fulfilled, and the
\* caller has got its error.
C3_Witness ==
  /\ fetchRes[1]["fetchPoolScope"] = "failed"
  /\ fetchRes[1]["fetchStateTreeLeaves"] = "ok"
  /\ fetchRes[1]["fetchASPData"] = "ok"
  /\ pc[1] = "failed"
  /\ err[1] = FetchError("fetchPoolScope")

\* C4: preparing never submits: a run's operation becomes submitted only in
\* a step that leaves the pipeline untouched, on a run that has already
\* returned its PreparedWithdrawal, and through executeWithdrawal or
\* executePreparedWithdrawal; and a submission is under way or over only
\* for an operation that was submitted so.
C4_SubmissionOnlyByExplicitExecute ==
  /\ [][\A r \in Runs :
          submitted'[r] # submitted[r] =>
            /\ pc[r] = "done" /\ result[r] # {}
            /\ submitted'[r] \in EntryPoints
            /\ UNCHANGED <<pc, log, result, pending, lastUsed>>]_vars
  /\ [](\A r \in Runs : tx[r] # "none" => submitted[r] \in EntryPoints)

\* A prepared run whose operation the caller has submitted, the hash
\* returned.
C4_Witness ==
  /\ pc[1] = "done"
  /\ submitted[1] = "executePreparedWithdrawal"
  /\ tx[1] = "transactionHash"


\* The account key a started run works with.
KeyOf(r) == TheFrame(r).accountKey

\* C5: two runs made in succession from the same request return artifacts
\* whose context.nextNoteIndex differ.  (Checked where a run is started only
\* when no other run is under way.)
C5_SuccessivePreparesDiffer ==
  \A r1 \in Runs : \A r2 \in Runs :
    (r1 # r2 /\ result[r1] # {} /\ result[r2] # {} /\ req[r1] = req[r2]) =>
      TheResult(r1).context.nextNoteIndex # TheResult(r2).context.nextNoteIndex

\* Two artifacts prepared one after the other from the same request.
C5_Witness ==
  /\ result[1] # {} /\ result[2] # {}
  /\ req[1] = req[2]
  /\ TheResult(2).context.nextNoteIndex = TheResult(1).context.nextNoteIndex + 1

\* C6: two runs for the same account key (and the one pool), however they
\* interleave, are never answered the same index by the tracker, never hold
\* the same nextNoteIndex, nor the same pair of new nullifier and new
\* secret.
C6_ConcurrentRunsGetDistinctIndices ==
  \A r1 \in Runs : \A r2 \in Runs :
    (r1 # r2 /\ frame[r1] # {} /\ frame[r2] # {} /\ KeyOf(r1) = KeyOf(r2)) =>
      /\ (answer[r1] # {} /\ answer[r2] # {}) => answer[r1] # answer[r2]
      /\ (ctx[r1] # {} /\ ctx[r2] # {}) =>
           /\ TheCtx(r1).nextNoteIndex # TheCtx(r2).nextNoteIndex
           /\ <<TheCtx(r1).newNullifier, TheCtx(r1).newSecret>>
                # <<TheCtx(r2).newNullifier, TheCtx(r2).newSecret>>

\* Two runs for the same key, both past the tracker and both still proving.
C6_Witness ==
  /\ pc[1] = "step3" /\ pc[2] = "step3"
  /\ ctx[1] # {} /\ ctx[2] # {}
  /\ KeyOf(1) = KeyOf(2)

\* C7 (as claimed): no run makes any call (fetch, tracker, derivation,
\* prover) for a request that validateWithdrawalRequest has not accepted
\* first.
C7_NoCallBeforeValidation ==
  \A r \in Runs : log[r] # <<>> => verdict[r] = "ok"

\* The defects the validator is said to reject, by the error each one is
\* answered with.
Defects(q) ==
  (IF q.noteData = {} \/ TheNote(q).commitment = <<>>
     THEN {ErrInvalidNote} ELSE {})
  \cup
  (IF q.withdrawAmount = <<>> \/ ~JsGreater(parseFloat(q.withdrawAmount), Zero)
     THEN {ErrInvalidAmount} ELSE {})
  \cup
  (IF q.noteData # {}
        /\ JsGreater(parseFloat(q.withdrawAmount), parseFloat(TheNote(q).amount))
     THEN {ErrExceedsBalance} ELSE {})
  \cup
  (IF q.recipientAddress = "" \/ ~isAddress(q.recipientAddress)
     THEN {ErrInvalidRecipient} ELSE {})
  \cup
  (IF q.accountKeys.privateKey = "" /\ ~HasMnemonic(q.accountKeys)
     THEN {ErrNoKeysProvided} ELSE {})

\* C8 (as claimed): validateWithdrawalRequest rejects a request exactly when
\* it has one of the defects (invalid note; amount empty or not greater than
\* 0; amount above the note's; invalid recipient; no credential), with the
\* error of a defect the request has, and accepts a request with none.
C8_RejectsExactlyTheDefects ==
  \A r \in Runs :
    verdict[r] # "none" =>
      /\ verdict[r] = "ok" <=> Defects(TheReq(r)) = {}
      /\ verdict[r] # "ok" => verdict[r] \in Defects(TheReq(r))

DerivePositions(l) == Positions(l, "deriveNullifier") \cup Positions(l, "deriveSecret")

\* C9 (as claimed): every run that reaches context calculation calls the
\* tracker exactly once, after getAccountKey.
C9_TrackerCalledOnceInEveryContextRun ==
  \A r \in Runs :
    Has(log[r], Begin(2)) =>
      /\ Cardinality(Positions(log[r], "getNextNoteIndex")) = 1
      /\ \A i \in Positions(log[r], "getAccountKey") :
           \A j \in Positions(log[r], "getNextNoteIndex") : i < j

\* C10: the index the tracker answers a run with is exactly one greater
\* than the largest index in use for its key at that moment and is in use
\* from then on; the context of the run carries that index, and so does
\* every PreparedWithdrawal, where it is greater than the index of the note
\* it spends.
C10_NextIndexIsLastUsedPlusOne ==
  /\ [][\A r \in Runs :
          (answer[r] = {} /\ answer'[r] # {}) =>
            \A i \in answer'[r] :
              /\ i = lastUsed[KeyOf(r)] + 1
              /\ lastUsed'[KeyOf(r)] = i]_vars
  /\ [](\A r \in Runs :
          /\ ctx[r] # {} => answer[r] = {TheCtx(r).nextNoteIndex}
          /\ result[r] # {} =>
               /\ TheResult(r).context.nextNoteIndex = TheCtx(r).nextNoteIndex
               /\ TheResult(r).context.nextNoteIndex > TheNote(TheReq(r)).noteIndex
               /\ TheResult(r).context.nextNoteIndex <= lastUsed[KeyOf(r)])

\* An artifact whose index is two past the spent note's: the tracker held a
\* larger index than the note's when the run asked.
C10_Witness ==
  /\ result[2] # {}
  /\ TheResult(2).context.nextNoteIndex >= TheNote(TheReq(2)).noteIndex + 2

\* C12: key resolution.  In a run that has called getAccountKey: when the
\* request has a private key, the run works with that very key, a mnemonic
\* being there or not; when it has only a mnemonic, with the key restored
\* from its words, those of the phrase or the list as it came (the phrase
\* "a b" and the list ["a", "b"] both restore "k2"); when it has neither,
\* the missing-key error is raised, the run holds no key, and the error is
\* what its caller gets.
C12_KeyResolution ==
  \A r \in Runs :
    Has(log[r], Call("getAccountKey")) =>
      LET k == TheReq(r).accountKeys
      IN  IF k.privateKey # ""
          THEN frame[r] # {} /\ KeyOf(r) = k.privateKey
          ELSE IF HasMnemonic(k)
          THEN /\ frame[r] # {}
               /\ KeyOf(r)
                    = restoreFromMnemonic(IF k.mnemonic.isArray
                                            THEN k.mnemonic.value
                                            ELSE Split(k.mnemonic.value, " ")).privateKey
               /\ k.mnemonic \in {MnemonicAB, WordList(WordsAB)} => KeyOf(r) = "k2"
          ELSE /\ frame[r] = {} /\ ctx[r] = {}
               /\ raised[r] = NoKeyMessage
               /\ pc[r] \in {"ret2", "failed"}
               /\ pc[r] = "failed" => err[r] = NoKeyMessage

\* A run whose request had both a private key and a mnemonic, working with
\* the private key.
C12_Witness ==
  /\ frame[1] # {}
  /\ TheReq(1).accountKeys = [privateKey |-> "k1", mnemonic |-> MnemonicAB]
  /\ KeyOf(1) = "k1"

\* C13 (as claimed): for every amount text that reads as a finite number,
\* calculateWithdrawalAmounts returns the protocol's basis points,
\* executionFee = withdrawAmount * basis points / 10000 and
\* youReceive = withdrawAmount - executionFee, and executionFee + youReceive
\* is withdrawAmount again; for "100" the fee is 10 and youReceive is 90.
C13_FeeAndReceiveAddUp ==
  \A a \in amounts :
    LET x == parseFloat(a.input)
    IN  (~x.nan /\ ~x.inf) =>
          /\ a.out.withdrawAmount = x
          /\ a.out.relayFeeBPS = DEFAULT_RELAY_FEE_BPS
          /\ a.out.executionFee
               = DDivInt(DMulInt(x, DEFAULT_RELAY_FEE_BPS), BPS_DENOMINATOR)
          /\ a.out.youReceive = DSub(x, a.out.executionFee)
          /\ DEq(DAdd(a.out.executionFee, a.out.youReceive), x)
          /\ a.input = <<"1", "0", "0">> =>
               /\ a.out.executionFee = parseFloat(<<"1", "0">>)
               /\ a.out.youReceive = parseFloat(<<"9", "0">>)

\* The errors that can be raised where a failed run threw: the step of the
\* throw and the last call the run had made tell which collaborator (or
\* which statement of the step) it was.
RaisedErrors(r) ==
  LET l == log[r]
      k == l[Len(l)].arg
  IN  CASE k = 1 -> {FetchError(f) : f \in FailedFetches(r)}
        [] k = 2 -> IF Has(l, Call("getNextNoteIndex"))
                    THEN {"IndexTrackerError"} ELSE {NoKeyMessage}
        [] k = 3 -> IF Has(l, Call("generateWithdrawalProof"))
                    THEN {"ProofGenerationError"}
                    ELSE {"SyntaxError", "InvalidDecimalNumberError"}
        [] k = 4 -> IF Has(l, Call("prepareWithdrawalUserOperation"))
                    THEN {"EncodingError"} ELSE {"AccountSetupError"}

\* C14: a failed run hands its caller exactly the error raised by the step
\* that failed (the first and only one to fail, the run ending there) and no
\* PreparedWithdrawal.  The error first raised in a run is never replaced
\* on its way (a later rejection of another fetch does not change it), and
\* once the caller has it neither the error nor the absence of a result
\* ever changes.
C14_CallerSeesFirstError ==
  /\ [](\A r \in Runs :
          pc[r] = "failed" =>
            /\ log[r] # <<>> /\ log[r][Len(log[r])].op = "throw"
            /\ Cardinality(Positions(log[r], "throw")) = 1
            /\ err[r] = raised[r]
            /\ err[r] \in RaisedErrors(r)
            /\ result[r] = {})
  /\ [][\A r \in Runs :
          /\ raised[r] # "" => raised'[r] = raised[r]
          /\ pc[r] = "failed" =>
               /\ pc'[r] = "failed"
               /\ err'[r] = err[r]
               /\ result'[r] = {}]_vars

\* A run that failed in step 4 creating the account handle, its caller
\* holding that very error.
C14_Witness ==
  /\ pc[1] = "failed"
  /\ log[1][Len(log[1])] = Throw(4)
  /\ ~Has(log[1], Call("prepareWithdrawalUserOperation"))
  /\ err[1] = "AccountSetupError"

\* fetchWithdrawalData has returned to processWithdrawal, with a result or
\* with a failure.
FetchStepReturned(r) == pc[r] \notin {"idle", "step1"}

Unsettled(r) == {f \in Fetches : fetchRes[r][f] = "none"}

\* C15 (as claimed): fetchWithdrawalData returns, with a result or with a
\* failure, only after all three fetches have completed.
C15_ReturnsAfterAllThreeCompleted ==
  \A r \in Runs : FetchStepReturned(r) => Unsettled(r) = {}

\* C15 (amended): the three fetches are issued together, before any of them
\* has settled (while the step waits, every fetch not yet settled is
\* outstanding); the step returns a result only when all three have
\* fulfilled, and the result is what they fulfilled with; it returns a
\* failure once a fetch has rejected, with the error of a fetch that
\* rejected, leaving the fetches still outstanding abandoned.
C15_JoinsOnSuccessFailsFast ==
  \A r \in Runs :
    /\ Has(log[r], Begin(1)) =>
         /\ Len(log[r]) >= 4
         /\ SubSeq(log[r], 1, 4)
              = <<Begin(1), Call("fetchStateTreeLeaves"), Call("fetchASPData"),
                  Call("fetchPoolScope")>>
    /\ pc[r] = "step1" => pending[r] = Unsettled(r)
    /\ Has(log[r], End(1)) =>
         /\ \A f \in Fetches : fetchRes[r][f] = "ok" /\ fetched[r][f] # {}
         /\ frame[r] # {} =>
              /\ TheFrame(r).stateTreeLeaves = ValueOf(fetched[r]["fetchStateTreeLeaves"])
              /\ TheFrame(r).aspData = ValueOf(fetched[r]["fetchASPData"])
              /\ TheFrame(r).poolScope = ValueOf(fetched[r]["fetchPoolScope"])
    /\ (FetchStepReturned(r) /\ ~Has(log[r], End(1))) =>
         /\ FailedFetches(r) # {}
         /\ raised[r] \in {FetchError(f) : f \in FailedFetches(r)}
         /\ pending[r] = Unsettled(r)
         /\ frame[r] = {}

\* A run whose first fetch rejected while the other two were outstanding:
\* the step has returned its failure and two fetches are abandoned.
C15_Witness ==
  /\ pc[1] = "failed" /\ Has(log[1], Throw(1))
  /\ Cardinality(pending[1] \cap Fetches) = 2

\* The collaborators outside the pipeline that a run calls.
ExternalCalls ==
  Fetches \cup {"getNextNoteIndex", "generateWithdrawalProof",
                "createWithdrawalSmartAccountClient",
                "prepareWithdrawalUserOperation"}

\* C16 (as claimed): no retries.  In every run each external collaborator
\* is called at most once, the prover exactly once when the run has reached
\* proof generation (step 3), and nothing is called after a failure (the
\* throw is the last thing the run does).
C16_NoRetryProverOnce ==
  \A r \in Runs :
    /\ \A op \in ExternalCalls : Cardinality(Positions(log[r], op)) <= 1
    /\ Has(log[r], Begin(3)) =>
         Cardinality(Positions(log[r], "generateWithdrawalProof")) = 1
    /\ Positions(log[r], "throw") \subseteq {Len(log[r])}

\* C17: the prover is called only after the run's index has been reserved
\* (the tracker has answered and counts the index as used), and a run that
\* is proving does not keep others from the tracker: while it proves, a run
\* for the same key that waits for the tracker can be answered at once, with
\* an index other than the prover's run holds, and every other run of that
\* key that has its index holds a different one.
C17_ProvingDoesNotBlockTracker ==
  \A r1 \in Runs :
    /\ Has(log[r1], Call("generateWithdrawalProof")) =>
         /\ ctx[r1] # {}
         /\ \A i \in Positions(log[r1], "generateWithdrawalProof") :
              \E j \in Positions(log[r1], "getNextNoteIndex:returned") :
                j < i /\ log[r1][j].arg = TheCtx(r1).nextNoteIndex
         /\ lastUsed[KeyOf(r1)] >= TheCtx(r1).nextNoteIndex
    /\ pc[r1] = "step3" =>
         \A r2 \in Runs \ {r1} :
           (frame[r2] # {} /\ KeyOf(r2) = KeyOf(r1)) =>
             /\ "getNextNoteIndex" \in pending[r2] =>
                  /\ ENABLED TrackerOk(r2)
                  /\ getNextNoteIndex(lastUsed, KeyOf(r2))
                       # TheCtx(r1).nextNoteIndex
             /\ answer[r2] # {} =>
                  TheAnswer(r2) # TheCtx(r1).nextNoteIndex

\* Run 1 is still waiting for the prover and run 2, for the same key, has
\* been answered the next index meanwhile.
C17_Witness ==
  /\ pc[1] = "step3" /\ "generateWithdrawalProof" \in pending[1]
  /\ frame[2] # {} /\ KeyOf(1) = KeyOf(2)
  /\ pc[2] = "step2"
  /\ answer[2] = {TheCtx(1).nextNoteIndex + 1}

\* C18: every PreparedWithdrawal is consistent and fresh, whatever the runs
\* before it fetched.  Its context is the context of its own run; the
\* context scalar is the hash of the encoding of the withdrawal-data tuple
\* (built from its own request's recipient and the protocol's fee constant)
\* with the pool scope its own run fetched; the prover was called with the
\* inputs of that context, that scalar among them; and the call data of its
\* operation holds that same tuple, that same scope and the proof the
\* prover returned.
C18_ArtifactConsistentAndFresh ==
  \A r \in Runs :
    result[r] # {} =>
      LET p == TheResult(r)
          q == TheReq(r)
          scope == ValueOf(fetched[r]["fetchPoolScope"])
          tuple == createWithdrawalData(q.recipientAddress, PAYMASTER,
                                        DEFAULT_RELAY_FEE_BPS)
      IN  /\ scope \in PoolScopes
          /\ p.context = TheCtx(r)
          /\ p.context.poolScope = scope
          /\ p.context.withdrawalData = tuple
          /\ p.context.context = hashToBigInt(encodeAbiParameters(tuple, scope))
          /\ p.proofData.proof.provedFor = ProofInputsOf(q, p.context)
          /\ p.proofData.proof.provedFor.context = p.context.context
          /\ p.userOperation.callData.withdrawal
               = [processooor |-> tuple[1], data |-> tuple[2]]
          /\ p.userOperation.callData.scope = scope
          /\ p.userOperation.callData.proof.formatted = p.proofData.proof

\* Two artifacts, the second one of a run that was started after the first
\* run had returned, for another recipient and on another pool scope than
\* the first run fetched.
C18_Witness ==
  /\ result[1] # {} /\ result[2] # {}
  /\ fetched[1]["fetchPoolScope"] # fetched[2]["fetchPoolScope"]
  /\ TheReq(1).recipientAddress # TheReq(2).recipientAddress
  /\ TheResult(2).userOperation.callData.scope
       = ValueOf(fetched[2]["fetchPoolScope"])
  /\ TheResult(2).context.context # TheResult(1).context.context

\* A call was given a request with neither a private key nor a mnemonic.
NoCredentials(r) ==
  /\ req[r] # {}
  /\ TheReq(r).accountKeys.privateKey = ""
  /\ ~HasMnemonic(TheReq(r).accountKeys)

\* C19: calculateWithdrawalContext, called on a request with neither a
\* private key nor a mnemonic, fails with the missing-key error (raised in
\* the call, and what the caller gets), the resolution of the key being the
\* last thing it did: the tracker never called and no nullifier or secret
\* derived; and no step of such a call changes the tracker's state.
C19_NoCredentialLeavesTrackerAlone ==
  /\ [](\A r \in Runs :
          (NoCredentials(r) /\ Has(log[r], Begin(2))) =>
            /\ raised[r] = NoKeyMessage
            /\ pc[r] \in {"ret2", "failed"}
            /\ pc[r] = "failed" => err[r] = NoKeyMessage
            /\ \A i \in Positions(log[r], "getAccountKey") :
                 \A j \in (i + 1) .. Len(log[r]) : log[r][j].op = "throw"
            /\ Positions(log[r], "getNextNoteIndex") = {}
            /\ DerivePositions(log[r]) = {}
            /\ answer[r] = {} /\ frame[r] = {} /\ ctx[r] = {} /\ result[r] = {})
  /\ [][(\A r \in Runs : pc'[r] # "idle" => NoCredentials(r)')
          => lastUsed' = lastUsed]_vars

\* A call without credentials that has failed, the caller holding the
\* missing-key error and the tracker where it was.
C19_Witness ==
  /\ NoCredentials(1)
  /\ entry[1] = "calculateWithdrawalContext"
  /\ pc[1] = "failed" /\ err[1] = NoKeyMessage
  /\ \A k \in Keys : lastUsed[k] = 0

\* The errors of validation in the order of their precedence.
Precedence ==
  <<ErrInvalidNote, ErrInvalidAmount, ErrExceedsBalance, ErrInvalidRecipient,
    ErrNoKeysProvided>>

\* The defects a request has, each looked at on its own: no note or no
\* commitment; an amount that is empty or at most 0; an amount above the
\* note's; a recipient that is empty or no address; no credential.
DefectsOf(q) ==
  (IF q.noteData = {} \/ TheNote(q).commitment = <<>>
     THEN {ErrInvalidNote} ELSE {})
  \cup
  (IF q.withdrawAmount = <<>> \/ JsLessEq(parseFloat(q.withdrawAmount), Zero)
     THEN {ErrInvalidAmount} ELSE {})
  \cup
  (IF q.noteData # {}
        /\ JsGreater(parseFloat(q.withdrawAmount), parseFloat(TheNote(q).amount))
     THEN {ErrExceedsBalance} ELSE {})
  \cup
  (IF q.recipientAddress = "" \/ ~isAddress(q.recipientAddress)
     THEN {ErrInvalidRecipient} ELSE {})
  \cup
  (IF q.accountKeys.privateKey = "" /\ ~HasMnemonic(q.accountKeys)
     THEN {ErrNoKeysProvided} ELSE {})

\* C20: validateWithdrawalRequest answers a request that has defects with
\* exactly one error, the one of its defects that comes first in the order
\* invalid note, non-positive amount, amount above the balance, invalid
\* recipient, missing credentials; and accepts a request that has none.
C20_FirstDefectByPrecedence ==
  \A r \in Runs :
    verdict[r] # "none" =>
      LET d == DefectsOf(TheReq(r))
          ranks == {i \in 1 .. Len(Precedence) : Precedence[i] \in d}
      IN  IF d = {} THEN verdict[r] = "ok"
          ELSE /\ verdict[r] \in d
               /\ \A i \in ranks : verdict[r] = Precedence[i] \/ \E j \in ranks : j < i

\* A request with a non-positive amount, a malformed recipient and no
\* credentials, answered with the amount's error.
C20_Witness ==
  /\ verdict[1] = ErrInvalidAmount
  /\ {ErrInvalidAmount, ErrInvalidRecipient, ErrNoKeysProvided}
       \subseteq DefectsOf(TheReq(1))

=============================================================================
